---- MODULE Spec2Model ----
(***************************************************************************)
(* State-machine model of the useLiveCommentary hook                       *)
(* (src/src/hooks/useLiveCommentary.ts): the playback scheduler, the       *)
(* inbound message processor, the microphone callback with barge-in        *)
(* detection and the session lifecycle callbacks.                          *)
(*                                                                         *)
(* One action is one task of the browser's event loop: a handler runs      *)
(* from its entry to its first real suspension point (await of a network,  *)
(* device or decode operation) or to its end.  React state set by a        *)
(* handler is committed with the step; a callback created by a handler     *)
(* keeps the value of isSessionReady of the render it was created in.      *)
(* Times are milliseconds.                                                 *)
(***************************************************************************)
EXTENDS Integers, Sequences, FiniteSets, TLC

\* ------------------------------------------------------------------ bounds
\* Each specification below bounds its environment in its next-state relation:
\* Spec (lifecycle), SpecSched (message processor and scheduler), SpecMic
\* (microphone and barge-in), SpecRestart (a session started over another),
\* SpecFrames (capture and its frame loop), SpecPrompts (prompt timers),
\* SpecLoop (a running frame loop and changes of mode and urgency),
\* SpecParse (the distance and the urgency read from AI texts),
\* SpecChat (the transcript filled up), SpecFaults (messages whose
\* handling fails), SpecQuiet (prompts and AI audio), SpecToggle (the App's
\* capture buttons), SpecStartFail (capture starts that fail), SpecPcm (the PCM encoder),
\* SpecClock (nextStartTime across sessions and flushes), SpecReconnect
\* (the ReconnectionManager).
MaxSessions   == 2      \* connections that can be told apart
MaxMsgs       == 2      \* Spec: inbound messages delivered in one behaviour
MaxClock      == 500    \* Spec: the clock stops advancing at this time
SchedMaxMsgs  == 3      \* SpecSched: inbound messages delivered
SchedMaxClock == 1000   \* SpecSched: the clock stops advancing at this time
MicMaxMsgs    == 2      \* SpecMic: inbound messages delivered
MicMaxClock   == 1500   \* SpecMic: the clock stops advancing at this time
RestartMaxMsgs  == 2    \* SpecRestart: inbound messages delivered
RestartMaxClock == 500  \* SpecRestart: the clock stops advancing at this time
FramesMaxMsgs   == 1    \* SpecFrames: inbound messages delivered
FramesMaxClock  == 500  \* SpecFrames: the clock stops advancing at this time
PromptsMaxMsgs  == 1    \* SpecPrompts: inbound messages delivered
PromptsMaxClock == 10000 \* SpecPrompts: the clock stops advancing at this time
PromptsTickMs   == 5000 \* SpecPrompts: the clock advances in steps of this size
MaxStarts       == 1    \* SpecFrames, SpecPrompts: capture starts in one behaviour
ParseMaxMsgs    == 2    \* SpecParse: inbound messages delivered
ParseMaxClock   == 500  \* SpecParse: the clock stops advancing at this time
ChatMaxMsgs     == 54   \* SpecChat: inbound messages delivered
ChatFill        == 48   \* SpecChat: the first messages, which are AI texts
FaultsMaxMsgs   == 3    \* SpecFaults: inbound messages delivered
FaultsMaxClock  == 500  \* SpecFaults: the clock stops advancing at this time
ClockMaxSessions == 2   \* SpecClock: connections requested
ClockMaxMsgs    == 2    \* SpecClock: inbound messages delivered
ReconnectMaxCalls == 2  \* SpecReconnect: calls made by the manager's owner
PcmMaxLen       == 2    \* SpecPcm: samples in one block
ToggleMaxStarts == 2    \* SpecToggle: capture starts in one behaviour
FailMaxStarts   == 2    \* SpecStartFail: capture starts in one behaviour
QuietMaxMsgs    == 2    \* SpecQuiet: inbound messages delivered
QuietMaxClock   == 10000 \* SpecQuiet: the clock stops advancing at this time
QuietTickMs     == 5000 \* SpecQuiet: the clock advances in steps of this size
QuietMaxStarts  == 1    \* SpecQuiet: capture starts in one behaviour
LoopMaxMsgs     == 1    \* SpecLoop: inbound messages delivered
LoopMaxClock    == 1000 \* SpecLoop: the clock stops advancing at this time
LoopMaxStarts   == 1    \* SpecLoop: capture starts in one behaviour
TickMs        == 500    \* the clock advances in steps of this size
DateEpoch     == 5000   \* Date.now() when the page was loaded

\* ------------------------------------------------------- program constants
AUDIO_BUFFER_GAP_MS == 80
SPEECH_COOLDOWN_MS  == 1000
MAX_CHAT_KEPT       == 49
DEFAULT_FRAME_INTERVAL_MS == 2000   \* 1000 / FRAME_RATE, FRAME_RATE = 1 / 2
INITIAL_PROMPT_DELAY_MS   == 5000
QUIET_PROMPT_DELAY_MS     == 5000
PROMPT_INTERVAL_MS        == 10000
MAX_RETRIES               == 7
RECONNECT_DELAYS          == << 250, 500, 1000, 2000, 4000, 8000, 10000 >>

\* chunk durations (ms) the decoder can return, and the microphone frames
Durations == {300, 1200}
MicFrames == { <<0, 0>>, <<327, -327>>, <<328, -328>> }

\* shapes of an inbound message: serverContent.interrupted, the text part of
\* modelTurn with its role ("user" | "ai" | "none"), the inline audio part
\* (0 = none, otherwise the duration the decoded buffer will have)
MsgShapes ==
  [interrupted : BOOLEAN, text : {"none", "user", "ai"}, audio : {0} \cup Durations]

VARIABLES
  clock,                 \* outputAudioCtx.currentTime; Date.now() = DateEpoch + clock
  commentaryStatus,      \* useState('')
  isSessionReady,        \* useState(false)
  isMicMuted,            \* useState(false)
  isMicMutedRef,         \* useRef(false)
  chatMessages,          \* useState([])
  isNavigationMode,      \* useState(false)
  urgencyLevel,          \* useState('low')
  detectedDistance,      \* useState(null): micrometres, -1 = null
  liveSessionRef,        \* 0 = null, else the transport the Session wraps
  nextStartTimeRef,
  isAudioPlayingRef,
  activeSourcesRef,      \* set of scheduled chunks [id, start, dur, ready]
  stoppedSources,        \* chunks stop()ped by a flush whose ended event is pending
  messageQueueRef,
  isProcessingQueueRef,
  decoding,              \* the messages awaiting decodeAudioData
  procReady,             \* isSessionReady of the processMessageQueue closure running
  lastUserSpeechTimeRef,
  microphoneStreamRef,   \* 0 = null, else the session whose setup acquired it
  audioWorkletNodeRef,   \* 0 = null, else the session whose setup created it
  openPorts,             \* worklet nodes whose port still delivers frames
  transports,            \* per requested connection: its state and closures
  numSessions,           \* connections requested so far
  numMsgs,               \* messages delivered so far
  numStarts,             \* capture start calls made so far
  initAwaiting,          \* an initLiveSession call suspended at `await stopLiveSession()`
  quietTimeouts,         \* pending 5 s timeouts created by source.onended
  promptIntervalRef,     \* 0 = null, else the id of the interval timer
  promptIntervals,       \* interval timers created and not cleared
  initialPrompts,        \* pending 5 s timeouts created by startFrameStreaming
  timerSeq,              \* timer ids handed out so far
  frameIntervalRef,      \* 0 = null, else the id of the last frame timer set
  frameTimers,           \* pending setTimeout(sendFrame) timers
  pendingBlobs,          \* frames drawn whose toBlob / FileReader result is awaited
  captureCalls,          \* startScreenShare / startCameraStream calls suspended at an await
  orientationCheckIntervalRef, \* FALSE = null
  frameCountRef,
  screenStreamRef,       \* FALSE = null
  cameraStreamRef,       \* FALSE = null
  isSharingScreen,       \* useState(false) of the App component
  isCameraActive,        \* useState(false) of the App component
  toggleCalls,           \* toggle handlers of the App suspended at an await
  workletInput,          \* the inputs of the last process() call of the worklet
  workletPosted,         \* what that call posted to the port
  reconnectionManager,   \* a ReconnectionManager: its fields, its timers and connect calls
  \* history variables (not program state)
  processedLog,          \* ids of messages taken by processMessageQueue, in order
  scheduledHist,         \* chunks started since the last flush, in order
  interruptsDone,        \* ids of interrupted messages whose handling finished
  discardedIds,          \* ids of messages dropped from the queue unprocessed
  ev                     \* what the last step did

vars == << clock, commentaryStatus, isSessionReady, isMicMuted, isMicMutedRef,
           chatMessages, isNavigationMode, urgencyLevel, detectedDistance,
           liveSessionRef, nextStartTimeRef,
           isSharingScreen, isCameraActive, toggleCalls, workletInput, workletPosted,
           reconnectionManager,
           isAudioPlayingRef, activeSourcesRef, stoppedSources, messageQueueRef,
           isProcessingQueueRef, decoding, procReady, lastUserSpeechTimeRef,
           microphoneStreamRef, audioWorkletNodeRef, openPorts, transports,
           numSessions, numMsgs, initAwaiting, quietTimeouts, promptIntervalRef,
           promptIntervals, initialPrompts, timerSeq,
           frameIntervalRef, frameTimers, pendingBlobs, captureCalls,
           orientationCheckIntervalRef, numStarts,
           frameCountRef, screenStreamRef, cameraStreamRef,
           processedLog, scheduledHist, interruptsDone, discardedIds, ev >>

Sessions == 1..MaxSessions

DateNow == DateEpoch + clock

Max(a, b) == IF a >= b THEN a ELSE b

SeqToSet(s) == { s[i] : i \in 1..Len(s) }

\* the state of a ReconnectionManager after its constructor (part_004, lines
\* 15-32) with the default configuration.  reconnectTimer: 0 = null, else the
\* id of the last timer set.  timers: the setTimeout callbacks pending, each
\* with the retryCount and the delay it was set with.  connecting: the
\* callbacks that await connectFn().  History: attempts = the connectFn calls
\* started since the last reset(), failNotified = the last step called
\* onReconnectFail, cancelled = cancelReconnect was called and neither
\* scheduleReconnect nor manualReconnect since, calls = the calls made by the
\* owner
NewReconnectionManager ==
  [ retryCount |-> 0, isReconnecting |-> FALSE, reconnectTimer |-> 0,
    timers |-> {}, connecting |-> {}, seq |-> 0,
    attempts |-> 0, failNotified |-> FALSE, cancelled |-> FALSE, calls |-> 0 ]

\* the snapshot of the scheduler taken where a flush path has finished
NoPost == [active |-> {}, playing |-> FALSE, nextStart |-> 0]

\* ev: op = the handler that ran; flush = the flush path it took ("none" if
\* none); post = the scheduler right after that flush; sent = the outbound
\* messages of the step, each with the session state at the moment of the
\* send; loud, trigger = what a microphone frame was found to be; wasMuted =
\* the mute flag a toggle found; skipped = a run of sendFrame returned without
\* drawing a frame; heard = the AI text handled last in the step
NoEv(op) == [op |-> op, flush |-> "none", post |-> NoPost, sent |-> <<>>,
             loud |-> FALSE, trigger |-> FALSE, wasMuted |-> FALSE,
             skipped |-> FALSE, heard |-> <<>>]

Send(kind, ready) == [kind |-> kind, ready |-> ready]

\* ------------------------------------------------------ playback scheduler
\* The processor's part of the state as one record, so that the synchronous
\* run of processMessageQueue over several messages is one function.
ProcState ==
  [ queue |-> messageQueueRef, processing |-> isProcessingQueueRef,
    decoding |-> decoding, active |-> activeSourcesRef,
    stopped |-> stoppedSources, playing |-> isAudioPlayingRef,
    nextStart |-> nextStartTimeRef, status |-> commentaryStatus,
    chat |-> chatMessages, nav |-> isNavigationMode, urgency |-> urgencyLevel,
    distance |-> detectedDistance,
    processed |-> processedLog,
    hist |-> scheduledHist, intDone |-> interruptsDone,
    discarded |-> discardedIds, flush |-> "none", post |-> NoPost,
    heard |-> <<>> ]

Snapshot(s) == [active |-> s.active, playing |-> s.playing, nextStart |-> s.nextStart]

\* mutant: the flag is left as it was
StopAndClearAudioKeepsPlaying(s) ==
  [s EXCEPT !.stopped = @ \cup s.active,
            !.active = {},
            !.hist = <<>>]

\* mutant: returns early when nothing is in flight
StopAndClearAudioEarlyReturn(s) ==
  IF s.active = {} THEN s
  ELSE [s EXCEPT !.stopped = @ \cup s.active,
                 !.active = {},
                 !.playing = FALSE,
                 !.hist = <<>>]

\* stopAndClearAudio: stop() every in-flight source (each will still get its
\* ended event), clear the set, isAudioPlayingRef.current = false
StopAndClearAudio(s) ==
  [s EXCEPT !.stopped = @ \cup s.active,
            !.active = {},
            !.playing = FALSE,
            !.hist = <<>>]

\* mutant: the last 50 entries are kept
AppendChatKeepsFifty(prev, entry) ==
  LET n == Len(prev)
      kept == IF n > 50 THEN SubSeq(prev, n - 49, n) ELSE prev
  IN  Append(kept, entry)

\* prev.slice(-49) followed by the new entry
AppendChat(prev, entry) ==
  LET n == Len(prev)
      kept == IF n > MAX_CHAT_KEPT THEN SubSeq(prev, n - MAX_CHAT_KEPT + 1, n) ELSE prev
  IN  Append(kept, entry)

\* mutant: the queued messages are kept
HandleInterruptedKeepsQueue(s, m, now) ==
  IF m.interrupted
    THEN LET f == [StopAndClearAudio(s) EXCEPT !.nextStart = now]
         IN  [f EXCEPT !.flush = "interrupt", !.post = Snapshot(f)]
    ELSE s

\* lines 291-298: the interruption signal
HandleInterrupted(s, m, now) ==
  IF m.interrupted
    THEN LET f == [StopAndClearAudio(s) EXCEPT
                     !.nextStart = now,
                     !.discarded = @ \cup { s.queue[i].id : i \in 1..Len(s.queue) },
                     !.queue = <<>>]
         IN  [f EXCEPT !.flush = "interrupt", !.post = Snapshot(f)]
    ELSE s

\* A text is the sequence of its words.  A numeral is a word of digits with
\* an optional fraction; ParseFloat gives its value in hundredths.
Numerals ==
  { <<"0.5", 50>>, <<"1", 100>>, <<"1.5", 150>>, <<"2", 200>>, <<"2.5", 250>>,
    <<"3", 300>>, <<"3.5", 350>>, <<"4", 400>>, <<"5", 500>> }

IsNumeral(w) == \E p \in Numerals : p[1] = w

ParseFloat(w) == (CHOOSE p \in Numerals : p[1] = w)[2]

\* the words of the texts that have an upper-case letter, with their
\* lower-case forms
UpperCaseWords ==
  { <<"STOP", "stop">>, <<"Stop", "stop">>, <<"Wall", "wall">>,
    <<"Clear", "clear">>, <<"Five", "five">>, <<"Obstacle", "obstacle">>,
    <<"Four", "four">>, <<"Person", "person">>, <<"Two", "two">>,
    <<"Meters", "meters">>, <<"Navigation", "navigation">> }

\* text.toLowerCase(), lines 182 and 340
ToLowerCase(text) ==
  [ i \in 1..Len(text) |->
      IF \E p \in UpperCaseWords : p[1] = text[i]
        THEN (CHOOSE p \in UpperCaseWords : p[1] = text[i])[2]
        ELSE text[i] ]

\* the lower-case words that (meter|metre|m\b) and (feet|foot|ft\b) match at
\* their start, and those that contain "stop"
MeterUnits == {"meter", "meters", "metre", "metres", "m"}
FeetUnits  == {"feet", "foot", "ft"}
HalfMeterUnits == {"meter", "meters", "metre", "metres"}
StopWords  == {"stop", "stops", "nonstop"}

\* String.match of lines 185-186: the value of the leftmost numeral that is
\* followed by a unit, -1 if there is none
MatchNumberBefore(lowerText, units) ==
  LET hits == { i \in 1..(Len(lowerText) - 1) :
                  IsNumeral(lowerText[i]) /\ lowerText[i + 1] \in units }
  IN  IF hits = {} THEN -1
      ELSE ParseFloat(lowerText[CHOOSE i \in hits : \A j \in hits : i <= j])

\* lowerText.includes(a + ' ' + b) for words a, b
IncludesPhrase(lowerText, a, b) ==
  \E i \in 1..(Len(lowerText) - 1) : lowerText[i] = a /\ lowerText[i + 1] = b

\* lines 182-199: distanceInMeters in micrometres, -1 = null
ParseDistance(text) ==
  LET lowerText  == ToLowerCase(text)
      meterMatch == MatchNumberBefore(lowerText, MeterUnits)
      feetMatch  == MatchNumberBefore(lowerText, FeetUnits)
      matched    == IF meterMatch # -1 THEN meterMatch * 10000
                    ELSE IF feetMatch # -1 THEN feetMatch * 3048
                    ELSE -1
  IN  IF \E u \in HalfMeterUnits : IncludesPhrase(lowerText, "half", u)
        THEN 500000 ELSE matched

\* line 233: lowerText.includes('stop')
IncludesStop(text) ==
  \E i \in 1..Len(text) : ToLowerCase(text)[i] \in StopWords

\* lines 341-349: the phrase that switches navigation mode on or off
NavCommand(text) ==
  LET lowerText == ToLowerCase(text)
  IN  IF \/ IncludesPhrase(lowerText, "navigation", "mode")
         \/ IncludesPhrase(lowerText, "start", "navigation")
         \/ IncludesPhrase(lowerText, "activate", "navigation")
        THEN "on"
      ELSE IF \/ IncludesPhrase(lowerText, "stop", "navigation")
              \/ IncludesPhrase(lowerText, "exit", "navigation")
              \/ IncludesPhrase(lowerText, "normal", "mode")
        THEN "off"
      ELSE "none"

\* what the matches find in a text: dist = the distance in micrometres
\* (-1 = null), stop = it contains "stop", nav = the mode it switches to
Says(text) ==
  [dist |-> ParseDistance(text), stop |-> IncludesStop(text), nav |-> NavCommand(text)]

\* an inbound message that carries the AI text of these words and no audio;
\* says is what parseDistanceAndSetUrgency and the voice commands will find
\* in the text when the message is handled
AiText(words) ==
  [interrupted |-> FALSE, text |-> "ai", audio |-> 0, words |-> words,
   says |-> Says(words)]

\* mutant: the boundaries belong to the band below
UrgencyForDistanceInclusive(um) ==
  IF um <= 1000000 THEN "critical"
  ELSE IF um <= 2000000 THEN "high"
  ELSE IF um <= 3000000 THEN "medium"
  ELSE "low"

\* lines 206-214: the urgency of a distance given in micrometres
UrgencyForDistance(um) ==
  IF um < 1000000 THEN "critical"
  ELSE IF um < 2000000 THEN "high"
  ELSE IF um < 3000000 THEN "medium"
  ELSE "low"

\* mutant: "stop" is looked for first and the distance has the last word
ParseDistanceAndSetUrgencyStopFirst(s, says) ==
  LET s0 == [s EXCEPT !.distance = says.dist]
      s1 == IF says.stop THEN [s0 EXCEPT !.urgency = "critical"] ELSE s0
  IN  IF says.dist # -1
        THEN [s1 EXCEPT !.urgency = UrgencyForDistance(says.dist)] ELSE s1

\* parseDistanceAndSetUrgency, lines 181-243, says being what the matches
\* found in the text
ParseDistanceAndSetUrgency(s, says) ==
  LET s0 == [s EXCEPT !.distance = says.dist]
      s1 == IF says.dist # -1
              THEN [s0 EXCEPT !.urgency = UrgencyForDistance(says.dist)] ELSE s0
  IN  IF says.stop THEN [s1 EXCEPT !.urgency = "critical"] ELSE s1

\* lines 339-353: the voice commands in an AI text
HandleNavCommand(s, says) ==
  IF says.nav = "on" THEN [s EXCEPT !.nav = TRUE, !.status = "NavigationMode"]
  ELSE IF says.nav = "off" THEN [s EXCEPT !.nav = FALSE, !.status = "NormalMode"]
  ELSE s

\* lines 307-319 and 326-354: the transcript entry of a message and, for an AI
\* text, the urgency and the navigation mode it sets; m.says is Says(m.words)
HandleText(s, m) ==
  IF m.text = "none" THEN s
  ELSE LET s1 == [s EXCEPT !.chat = AppendChat(@, [type |-> m.text, id |-> m.id])]
       IN  IF m.text = "ai"
             THEN [HandleNavCommand(ParseDistanceAndSetUrgency(s1, m.says), m.says)
                     EXCEPT !.heard = m.words]
             ELSE s1

\* mutant: every chunk starts a gap from now whatever was scheduled
SafeStartTimeFromNow(s, now) ==
  IF ~s.playing
    THEN Max(s.nextStart, now + AUDIO_BUFFER_GAP_MS)
    ELSE now + AUDIO_BUFFER_GAP_MS

\* lines 363-380: where the chunk carried by the message will start
SafeStartTime(s, now) ==
  IF ~s.playing
    THEN Max(s.nextStart, now + AUDIO_BUFFER_GAP_MS)
    ELSE IF s.nextStart < now THEN now + AUDIO_BUFFER_GAP_MS ELSE s.nextStart

\* lines 358-388: up to the await of decodeAudioData
BeginAudio(s, m, now) ==
  [s EXCEPT !.nextStart = SafeStartTime(s, now),
            !.playing = TRUE,
            !.status = "Speaking",
            !.decoding = @ \cup {m}]

\* mutant: the in-progress flag is not consulted
RECURSIVE ProcessMessageQueueReentrant(_, _)
ProcessMessageQueueReentrant(s, now) ==
  IF s.queue = <<>> THEN s
  ELSE
    LET m  == Head(s.queue)
        s1 == [s EXCEPT !.processing = TRUE, !.queue = Tail(@),
                        !.processed = Append(@, m.id)]
        s2 == HandleText(HandleInterrupted(s1, m, now), m)
    IN  IF m.bad
          THEN s2
        ELSE IF m.audio # 0
          THEN BeginAudio(s2, m, now)
          ELSE LET s3 == [s2 EXCEPT !.processing = FALSE,
                                    !.intDone = IF m.interrupted THEN @ \cup {m.id} ELSE @]
               IN  ProcessMessageQueueReentrant(s3, now)

\* processMessageQueue from its entry: runs until a message awaits its audio
\* decode or the queue is drained (line 434 re-enters synchronously).  m.bad:
\* the message has a modelTurn without parts, and modelTurn?.parts.find of
\* line 326 throws: the async function ends there, before line 432
RECURSIVE ProcessMessageQueue(_, _)

\* mutant: the clock is not advanced by the chunk's duration
ScheduleDecodedNoAdvance(s, m, ready, now) ==
  LET chunk == [id |-> m.id, start |-> s.nextStart, dur |-> m.audio, ready |-> ready]
      s1    == [s EXCEPT !.active = @ \cup {chunk},
                         !.hist = Append(@, chunk),
                         !.decoding = @ \ {m},
                         !.processing = FALSE,
                         !.intDone = IF m.interrupted THEN @ \cup {m.id} ELSE @]
  IN  ProcessMessageQueue(s1, now)

ProcessMessageQueue(s, now) ==
  IF s.processing \/ s.queue = <<>> THEN s
  ELSE
    LET m  == Head(s.queue)
        s1 == [s EXCEPT !.processing = TRUE, !.queue = Tail(@),
                        !.processed = Append(@, m.id)]
        s2 == HandleText(HandleInterrupted(s1, m, now), m)
    IN  IF m.bad
          THEN s2
        ELSE IF m.audio # 0
          THEN BeginAudio(s2, m, now)
          ELSE LET s3 == [s2 EXCEPT !.processing = FALSE,
                                    !.intDone = IF m.interrupted THEN @ \cup {m.id} ELSE @]
               IN  ProcessMessageQueue(s3, now)

\* lines 389-434: the continuation after decodeAudioData resolved
ScheduleDecoded(s, m, ready, now) ==
  LET chunk == [id |-> m.id, start |-> s.nextStart, dur |-> m.audio, ready |-> ready]
      s1    == [s EXCEPT !.active = @ \cup {chunk},
                         !.nextStart = @ + m.audio,
                         !.hist = Append(@, chunk),
                         !.decoding = @ \ {m},
                         !.processing = FALSE,
                         !.intDone = IF m.interrupted THEN @ \cup {m.id} ELSE @]
  IN  ProcessMessageQueue(s1, now)

\* writes a processor record back to the variables
SetProc(s) ==
  /\ messageQueueRef' = s.queue
  /\ isProcessingQueueRef' = s.processing
  /\ decoding' = s.decoding
  /\ activeSourcesRef' = s.active
  /\ stoppedSources' = s.stopped
  /\ isAudioPlayingRef' = s.playing
  /\ nextStartTimeRef' = s.nextStart
  /\ commentaryStatus' = s.status
  /\ chatMessages' = s.chat
  /\ isNavigationMode' = s.nav
  /\ urgencyLevel' = s.urgency
  /\ detectedDistance' = s.distance
  /\ processedLog' = s.processed
  /\ scheduledHist' = s.hist
  /\ interruptsDone' = s.intDone
  /\ discardedIds' = s.discarded

procVars == << messageQueueRef, isProcessingQueueRef, decoding, activeSourcesRef,
               stoppedSources, isAudioPlayingRef, nextStartTimeRef, commentaryStatus,
               chatMessages, isNavigationMode, urgencyLevel, detectedDistance,
               processedLog,
               scheduledHist, interruptsDone, discardedIds >>

\* --------------------------------------------------------------- lifecycle
NoTransport == [state |-> "none", mic |-> "none", ready |-> FALSE]

Init ==
  /\ clock = 0
  /\ commentaryStatus = ""
  /\ isSessionReady = FALSE
  /\ isMicMuted = FALSE
  /\ isMicMutedRef = FALSE
  /\ chatMessages = <<>>
  /\ isNavigationMode = FALSE
  /\ urgencyLevel = "low"
  /\ detectedDistance = -1
  /\ liveSessionRef = 0
  /\ nextStartTimeRef = 0
  /\ isAudioPlayingRef = FALSE
  /\ activeSourcesRef = {}
  /\ stoppedSources = {}
  /\ messageQueueRef = <<>>
  /\ isProcessingQueueRef = FALSE
  /\ decoding = {}
  /\ procReady = FALSE
  /\ lastUserSpeechTimeRef = 0
  /\ microphoneStreamRef = 0
  /\ audioWorkletNodeRef = 0
  /\ openPorts = {}
  /\ transports = [t \in Sessions |-> NoTransport]
  /\ numSessions = 0
  /\ numMsgs = 0
  /\ initAwaiting = [pending |-> FALSE, ready |-> FALSE]
  /\ quietTimeouts = {}
  /\ promptIntervalRef = 0
  /\ promptIntervals = {}
  /\ initialPrompts = {}
  /\ timerSeq = 0
  /\ frameIntervalRef = 0
  /\ frameTimers = {}
  /\ pendingBlobs = {}
  /\ captureCalls = {}
  /\ numStarts = 0
  /\ orientationCheckIntervalRef = FALSE
  /\ frameCountRef = 0
  /\ screenStreamRef = FALSE
  /\ cameraStreamRef = FALSE
  /\ isSharingScreen = FALSE
  /\ isCameraActive = FALSE
  /\ toggleCalls = {}
  /\ workletInput = <<>>
  /\ workletPosted = <<>>
  /\ reconnectionManager = NewReconnectionManager
  /\ processedLog = <<>>
  /\ scheduledHist = <<>>
  /\ interruptsDone = {}
  /\ discardedIds = {}
  /\ ev = NoEv("Init")

captureVars == << frameIntervalRef, frameTimers, pendingBlobs, captureCalls, numStarts,
                 orientationCheckIntervalRef, frameCountRef, screenStreamRef,
                 cameraStreamRef >>
timerVars   == << quietTimeouts, promptIntervalRef, promptIntervals, initialPrompts,
                 timerSeq >>
modeVars    == << isNavigationMode, urgencyLevel, detectedDistance >>
appVars     == << isSharingScreen, isCameraActive, toggleCalls >>
pcmVars     == << workletInput, workletPosted >>
micVars     == << microphoneStreamRef, audioWorkletNodeRef, openPorts >>

\* everything but the clock, the capture state, the timers and ev
lifeVars == << commentaryStatus, isSessionReady, isMicMuted, isMicMutedRef, pcmVars, reconnectionManager,
               chatMessages, modeVars, liveSessionRef, nextStartTimeRef,
               isAudioPlayingRef, activeSourcesRef, stoppedSources,
               messageQueueRef, isProcessingQueueRef, decoding, procReady,
               lastUserSpeechTimeRef, micVars, transports, numSessions, numMsgs,
               initAwaiting, processedLog, scheduledHist, interruptsDone,
               discardedIds >>

\* time passes
TickBy(d) ==
  /\ clock' = clock + d
  /\ ev' = NoEv("Tick")
  /\ UNCHANGED << lifeVars, appVars, timerVars, captureVars >>

Tick ==
  /\ clock' = clock + TickMs
  /\ ev' = NoEv("Tick")
  /\ UNCHANGED << commentaryStatus, isSessionReady, isMicMuted, isMicMutedRef, pcmVars, reconnectionManager, appVars,
                  chatMessages, modeVars, liveSessionRef, nextStartTimeRef,
                  isAudioPlayingRef, activeSourcesRef, stoppedSources,
                  messageQueueRef, isProcessingQueueRef, decoding, procReady,
                  lastUserSpeechTimeRef, micVars, transports, numSessions, numMsgs,
                  initAwaiting, timerVars, captureVars, processedLog,
                  scheduledHist, interruptsDone, discardedIds >>

\* cleanupAudioInput: stop the microphone tracks, close the worklet's port
CleanupAudioInput ==
  /\ microphoneStreamRef' = 0
  /\ audioWorkletNodeRef' = 0
  /\ openPorts' = openPorts \ {audioWorkletNodeRef}

\* lines 444-445 and 451-452: clear the timers the two refs name
ClearCaptureTimers ==
  /\ frameTimers' = { f \in frameTimers : f.id # frameIntervalRef }
  /\ frameIntervalRef' = 0
  /\ promptIntervals' = { i \in promptIntervals : i.id # promptIntervalRef }
  /\ promptIntervalRef' = 0

\* stopScreenShare followed by stopCameraStream (lines 487-488)
StopCapture ==
  /\ ClearCaptureTimers
  /\ screenStreamRef' = FALSE
  /\ cameraStreamRef' = FALSE
  /\ orientationCheckIntervalRef' = FALSE

\* session.close(): the transport starts closing, its close event comes later
CloseTransport(t) ==
  [transports EXCEPT ![t].state =
     IF @ \in {"connecting", "open"} THEN "closing" ELSE @]

\* mutant: the catch block only logs
StopLiveSessionBodyCatchLogsOnly(op, closeThrows) ==
  /\ isSessionReady' = FALSE
  /\ chatMessages' = <<>>
  /\ transports' = IF liveSessionRef # 0 /\ ~closeThrows
                     THEN CloseTransport(liveSessionRef) ELSE transports
  /\ ev' = IF liveSessionRef # 0 /\ closeThrows
             THEN [NoEv(op) EXCEPT !.flush = "forced", !.post = Snapshot(ProcState)]
             ELSE NoEv(op)
  /\ UNCHANGED << activeSourcesRef, stoppedSources, isAudioPlayingRef,
                  scheduledHist, liveSessionRef, commentaryStatus, micVars >>
  /\ StopCapture
  /\ UNCHANGED << numStarts, quietTimeouts, initialPrompts, timerSeq, pendingBlobs,
                  captureCalls, frameCountRef >>

\* stopLiveSession, lines 472-489; closeThrows: session.close() throws
StopLiveSessionBody(op, closeThrows) ==
  /\ isSessionReady' = FALSE
  /\ chatMessages' = <<>>
  /\ IF liveSessionRef # 0 /\ closeThrows
       THEN LET f == StopAndClearAudio(ProcState)
            IN  /\ activeSourcesRef' = f.active
                /\ stoppedSources' = f.stopped
                /\ isAudioPlayingRef' = f.playing
                /\ scheduledHist' = f.hist
                /\ liveSessionRef' = 0
                /\ commentaryStatus' = "Idle"
                /\ CleanupAudioInput
                /\ transports' = transports
                /\ ev' = [NoEv(op) EXCEPT
                            !.flush = "forced", !.post = Snapshot(f)]
       ELSE /\ transports' = IF liveSessionRef # 0
                               THEN CloseTransport(liveSessionRef) ELSE transports
            /\ ev' = NoEv(op)
            /\ UNCHANGED << activeSourcesRef, stoppedSources, isAudioPlayingRef,
                            scheduledHist, liveSessionRef, commentaryStatus, micVars >>
  /\ StopCapture
  /\ UNCHANGED << numStarts, quietTimeouts, initialPrompts, timerSeq, pendingBlobs,
                  captureCalls, frameCountRef >>

StopLiveSession ==
  /\ \E closeThrows \in BOOLEAN : StopLiveSessionBody("StopLiveSession", closeThrows)
  /\ UNCHANGED << clock, isMicMuted, isMicMutedRef, pcmVars, reconnectionManager, appVars, modeVars,
                  nextStartTimeRef, messageQueueRef, isProcessingQueueRef,
                  decoding, procReady, lastUserSpeechTimeRef, numSessions,
                  numMsgs, initAwaiting, processedLog, interruptsDone,
                  discardedIds >>

\* initLiveSession, lines 493-506, entered with the isSessionReady of the
\* render the call was made in.  outcome: "audioErr" = initAudioContexts
\* rejects, "connectErr" = no AudioWorklet or ai.live.connect rejects,
\* "ok" = the connection is requested
InitConnect(ready, outcome) ==
  /\ liveSessionRef' = 0
  /\ isSessionReady' = FALSE
  /\ IF outcome = "audioErr"
       THEN /\ commentaryStatus' = "AudioErr"
            /\ UNCHANGED << nextStartTimeRef, messageQueueRef, discardedIds,
                            numSessions, transports >>
       ELSE /\ nextStartTimeRef' = clock
            /\ messageQueueRef' = <<>>
            /\ discardedIds' = discardedIds \cup
                 { messageQueueRef[i].id : i \in 1..Len(messageQueueRef) }
            /\ IF outcome = "connectErr"
                 THEN /\ commentaryStatus' = "ConnectErr"
                      /\ UNCHANGED << numSessions, transports >>
                 ELSE /\ commentaryStatus' = "Connecting"
                      /\ numSessions' = numSessions + 1
                      /\ transports' = [transports EXCEPT ![numSessions + 1] =
                           [state |-> "connecting", mic |-> "none", ready |-> ready]]

InitOutcomes == {"ok", "audioErr", "connectErr"}

\* initLiveSession called while no session object is held
InitLiveSession ==
  /\ ~initAwaiting.pending
  /\ liveSessionRef = 0
  /\ \E outcome \in InitOutcomes : InitConnect(isSessionReady, outcome)
  /\ ev' = NoEv("InitLiveSession")
  /\ UNCHANGED << clock, isMicMuted, isMicMutedRef, pcmVars, reconnectionManager, appVars, chatMessages, modeVars,
                  isAudioPlayingRef, activeSourcesRef, stoppedSources,
                  isProcessingQueueRef, decoding, procReady, lastUserSpeechTimeRef,
                  micVars, numMsgs, initAwaiting, timerVars, captureVars,
                  processedLog, scheduledHist, interruptsDone >>

\* initLiveSession called while a session object is held: line 492, up to the
\* await of stopLiveSession()
InitLiveSessionRestart ==
  /\ ~initAwaiting.pending
  /\ liveSessionRef # 0
  /\ \E closeThrows \in BOOLEAN : StopLiveSessionBody("InitLiveSessionRestart", closeThrows)
  /\ initAwaiting' = [pending |-> TRUE, ready |-> isSessionReady]
  /\ UNCHANGED << clock, isMicMuted, isMicMutedRef, pcmVars, reconnectionManager, appVars, modeVars,
                  nextStartTimeRef, messageQueueRef, isProcessingQueueRef,
                  decoding, procReady, lastUserSpeechTimeRef, numSessions,
                  numMsgs, processedLog, interruptsDone, discardedIds >>

\* the continuation of that call after stopLiveSession() resolved
InitLiveSessionResume ==
  /\ initAwaiting.pending
  /\ \E outcome \in InitOutcomes : InitConnect(initAwaiting.ready, outcome)
  /\ initAwaiting' = [pending |-> FALSE, ready |-> FALSE]
  /\ ev' = NoEv("InitLiveSessionResume")
  /\ UNCHANGED << clock, isMicMuted, isMicMutedRef, pcmVars, reconnectionManager, appVars, chatMessages, modeVars,
                  isAudioPlayingRef, activeSourcesRef, stoppedSources,
                  isProcessingQueueRef, decoding, procReady, lastUserSpeechTimeRef,
                  micVars, numMsgs, timerVars, captureVars,
                  processedLog, scheduledHist, interruptsDone >>

\* the transport opened: onopen (lines 509-554 up to the first await of the
\* microphone setup), then connect() resolves and lines 583-592 run
TransportOpen(t) ==
  /\ transports[t].state = "connecting"
  /\ isSessionReady' = TRUE
  /\ isNavigationMode' = FALSE
  /\ commentaryStatus' = "Ready"
  /\ transports' = [transports EXCEPT ![t].state = "open", ![t].mic = "pending"]
  /\ liveSessionRef' = t
  /\ ev' = [NoEv("TransportOpen") EXCEPT !.sent = << Send("text", TRUE) >>]
  /\ UNCHANGED << clock, isMicMuted, isMicMutedRef, pcmVars, reconnectionManager, appVars, chatMessages, urgencyLevel,
                  detectedDistance, nextStartTimeRef,
                  isAudioPlayingRef, activeSourcesRef, stoppedSources,
                  messageQueueRef, isProcessingQueueRef, decoding, procReady,
                  lastUserSpeechTimeRef, micVars, numSessions, numMsgs,
                  initAwaiting, timerVars, captureVars, processedLog,
                  scheduledHist, interruptsDone, discardedIds >>

\* the microphone setup started by onopen got its module and its stream
MicSetupDone(t) ==
  /\ transports[t].mic = "pending"
  /\ transports' = [transports EXCEPT ![t].mic = "done"]
  /\ microphoneStreamRef' = t
  /\ audioWorkletNodeRef' = t
  /\ openPorts' = openPorts \cup {t}
  /\ ev' = NoEv("MicSetupDone")
  /\ UNCHANGED << clock, commentaryStatus, isSessionReady, isMicMuted, isMicMutedRef, pcmVars, reconnectionManager, appVars,
                  chatMessages, modeVars, liveSessionRef, nextStartTimeRef,
                  isAudioPlayingRef, activeSourcesRef, stoppedSources,
                  messageQueueRef, isProcessingQueueRef, decoding, procReady,
                  lastUserSpeechTimeRef, numSessions, numMsgs, initAwaiting,
                  timerVars, captureVars, processedLog, scheduledHist,
                  interruptsDone, discardedIds >>

\* mutant: the failure ends the session
MicSetupFailEndsSession(t) ==
  /\ transports[t].mic = "pending"
  /\ transports' = [transports EXCEPT ![t].mic = "failed"]
  /\ isSessionReady' = FALSE
  /\ liveSessionRef' = 0
  /\ commentaryStatus' = "Error"
  /\ ev' = NoEv("MicSetupFail")
  /\ UNCHANGED << clock, isMicMuted, isMicMutedRef, pcmVars, reconnectionManager, appVars,
                  chatMessages, modeVars, nextStartTimeRef,
                  isAudioPlayingRef, activeSourcesRef, stoppedSources,
                  messageQueueRef, isProcessingQueueRef, decoding, procReady,
                  lastUserSpeechTimeRef, micVars, numSessions, numMsgs,
                  initAwaiting, timerVars, captureVars, processedLog,
                  scheduledHist, interruptsDone, discardedIds >>

\* addModule or getUserMedia rejected: "Continuing without microphone"
MicSetupFail(t) ==
  /\ transports[t].mic = "pending"
  /\ transports' = [transports EXCEPT ![t].mic = "failed"]
  /\ ev' = NoEv("MicSetupFail")
  /\ UNCHANGED << clock, commentaryStatus, isSessionReady, isMicMuted, isMicMutedRef, pcmVars, reconnectionManager, appVars,
                  chatMessages, modeVars, liveSessionRef, nextStartTimeRef,
                  isAudioPlayingRef, activeSourcesRef, stoppedSources,
                  messageQueueRef, isProcessingQueueRef, decoding, procReady,
                  lastUserSpeechTimeRef, micVars, numSessions, numMsgs,
                  initAwaiting, timerVars, captureVars, processedLog,
                  scheduledHist, interruptsDone, discardedIds >>

\* onerror, lines 560-565
OnError(t) ==
  /\ transports[t].state \in {"connecting", "open", "closing"}
  /\ LET f == StopAndClearAudio(ProcState)
     IN  /\ activeSourcesRef' = f.active
         /\ stoppedSources' = f.stopped
         /\ isAudioPlayingRef' = f.playing
         /\ scheduledHist' = f.hist
         /\ ev' = [NoEv("OnError") EXCEPT !.flush = "error", !.post = Snapshot(f)]
  /\ isSessionReady' = FALSE
  /\ commentaryStatus' = "Error"
  /\ UNCHANGED << clock, isMicMuted, isMicMutedRef, pcmVars, reconnectionManager, appVars, chatMessages, modeVars,
                  liveSessionRef, nextStartTimeRef, messageQueueRef,
                  isProcessingQueueRef, decoding, procReady, lastUserSpeechTimeRef,
                  micVars, transports, numSessions, numMsgs, initAwaiting,
                  timerVars, captureVars, processedLog, interruptsDone,
                  discardedIds >>

\* onclose, lines 566-573
OnClose(t) ==
  /\ transports[t].state \in {"connecting", "open", "closing"}
  /\ transports' = [transports EXCEPT ![t].state = "closed"]
  /\ LET f == StopAndClearAudio(ProcState)
     IN  /\ activeSourcesRef' = f.active
         /\ stoppedSources' = f.stopped
         /\ isAudioPlayingRef' = f.playing
         /\ scheduledHist' = f.hist
         /\ ev' = [NoEv("OnClose") EXCEPT !.flush = "close", !.post = Snapshot(f)]
  /\ isSessionReady' = FALSE
  /\ liveSessionRef' = 0
  /\ commentaryStatus' = "Idle"
  /\ CleanupAudioInput
  /\ UNCHANGED << clock, isMicMuted, isMicMutedRef, pcmVars, reconnectionManager, appVars, chatMessages, modeVars,
                  nextStartTimeRef, messageQueueRef, isProcessingQueueRef, decoding,
                  procReady, lastUserSpeechTimeRef, numSessions, numMsgs,
                  initAwaiting, timerVars, captureVars, processedLog,
                  interruptsDone, discardedIds >>

\* ------------------------------------------------------- inbound messages
\* onmessage, lines 555-559: push, then processMessageQueue of the current
\* render (a new run starts only if none is in progress)
OnMessage(t, shape) ==
  /\ transports[t].state \in {"open", "closing"}
  /\ numMsgs' = numMsgs + 1
  /\ LET m  == [id |-> numMsgs + 1, interrupted |-> shape.interrupted,
                text |-> shape.text, audio |-> shape.audio,
                bad |-> IF "bad" \in DOMAIN shape THEN shape.bad ELSE FALSE,
                words |-> IF "words" \in DOMAIN shape THEN shape.words ELSE <<>>,
                says |-> IF "words" \in DOMAIN shape THEN shape.says ELSE Says(<<>>)]
         s0 == [ProcState EXCEPT !.queue = Append(@, m)]
         s1 == ProcessMessageQueue(s0, clock)
     IN  /\ SetProc(s1)
         /\ procReady' = IF isProcessingQueueRef THEN procReady ELSE isSessionReady
         /\ ev' = [NoEv("OnMessage") EXCEPT !.flush = s1.flush, !.post = s1.post,
                                            !.heard = s1.heard]
  /\ UNCHANGED << clock, isSessionReady, isMicMuted, isMicMutedRef, pcmVars, reconnectionManager, appVars,
                  liveSessionRef, lastUserSpeechTimeRef, micVars, transports,
                  numSessions, initAwaiting, timerVars, captureVars >>

\* decodeAudioData resolved: the chunk is scheduled and the run goes on
DecodeDone(m) ==
  /\ m \in decoding
  /\ LET s1 == ScheduleDecoded(ProcState, m, procReady, clock)
     IN  /\ SetProc(s1)
         /\ ev' = [NoEv("DecodeDone") EXCEPT !.flush = s1.flush, !.post = s1.post,
                                             !.heard = s1.heard]
  /\ UNCHANGED << clock, isSessionReady, isMicMuted, isMicMutedRef, pcmVars, reconnectionManager, appVars,
                  liveSessionRef, procReady, lastUserSpeechTimeRef, micVars,
                  transports, numSessions, numMsgs, initAwaiting, timerVars,
                  captureVars >>

\* decode() or decodeAudioData threw: the async function ends at the throw
DecodeFail(m) ==
  /\ m \in decoding
  /\ decoding' = decoding \ {m}
  /\ ev' = NoEv("DecodeFail")
  /\ UNCHANGED << clock, commentaryStatus, isSessionReady, isMicMuted, isMicMutedRef, pcmVars, reconnectionManager, appVars,
                  chatMessages, modeVars, liveSessionRef, nextStartTimeRef,
                  isAudioPlayingRef, activeSourcesRef, stoppedSources,
                  messageQueueRef, isProcessingQueueRef, procReady,
                  lastUserSpeechTimeRef, micVars, transports, numSessions, numMsgs,
                  initAwaiting, timerVars, captureVars, processedLog,
                  scheduledHist, interruptsDone, discardedIds >>

\* source.onended, lines 394-422, for a chunk that played to its end or was
\* stopped by a flush
SourceEnded(c) ==
  /\ \/ c \in activeSourcesRef /\ clock >= c.start + c.dur
     \/ c \in stoppedSources
  /\ activeSourcesRef' = activeSourcesRef \ {c}
  /\ stoppedSources' = stoppedSources \ {c}
  /\ IF activeSourcesRef' = {}
       THEN /\ isAudioPlayingRef' = FALSE
            /\ commentaryStatus' = IF c.ready THEN "Ready" ELSE "Disconnected"
            /\ promptIntervals' = { i \in promptIntervals : i.id # promptIntervalRef }
            /\ promptIntervalRef' = 0
            /\ quietTimeouts' = quietTimeouts \cup
                 { [by |-> c.id, ready |-> c.ready, at |-> clock + QUIET_PROMPT_DELAY_MS] }
            /\ UNCHANGED << initialPrompts, timerSeq >>
       ELSE UNCHANGED << isAudioPlayingRef, commentaryStatus, timerVars >>
  /\ ev' = NoEv("SourceEnded")
  /\ UNCHANGED << clock, isSessionReady, isMicMuted, isMicMutedRef, pcmVars, reconnectionManager, appVars, chatMessages,
                  modeVars, liveSessionRef, nextStartTimeRef,
                  messageQueueRef, isProcessingQueueRef, decoding, procReady,
                  lastUserSpeechTimeRef, micVars, transports, numSessions, numMsgs,
                  initAwaiting, captureVars, processedLog, scheduledHist,
                  interruptsDone, discardedIds >>

\* ------------------------------------------------------------ prompt timers
\* the condition every prompt send is under (lines 408, 414 and 626), ready
\* being the isSessionReady of the closure
MayPrompt(ready) ==
  /\ liveSessionRef # 0
  /\ ready
  /\ frameCountRef > 0
  /\ ~isAudioPlayingRef

PromptSent(ready) ==
  IF MayPrompt(ready) THEN << Send("prompt", isSessionReady) >> ELSE <<>>

\* the timeout of lines 625-630 fires
InitialPromptFires(p) ==
  /\ p \in initialPrompts
  /\ clock >= p.at
  /\ initialPrompts' = initialPrompts \ {p}
  /\ ev' = [NoEv("InitialPromptFires") EXCEPT !.sent = PromptSent(p.ready)]
  /\ UNCHANGED << clock, lifeVars, appVars, captureVars, quietTimeouts, promptIntervalRef,
                  promptIntervals, timerSeq >>

\* the timeout of lines 407-420 fires: a prompt, and a new 10 s interval
\* whose id replaces the one in promptIntervalRef
QuietTimeoutFires(q) ==
  /\ q \in quietTimeouts
  /\ clock >= q.at
  /\ quietTimeouts' = quietTimeouts \ {q}
  /\ IF MayPrompt(q.ready)
       THEN /\ timerSeq' = timerSeq + 1
            /\ promptIntervalRef' = timerSeq + 1
            /\ promptIntervals' = promptIntervals \cup
                 { [id |-> timerSeq + 1, ready |-> q.ready,
                    at |-> clock + PROMPT_INTERVAL_MS] }
       ELSE UNCHANGED << timerSeq, promptIntervalRef, promptIntervals >>
  /\ ev' = [NoEv("QuietTimeoutFires") EXCEPT !.sent = PromptSent(q.ready)]
  /\ UNCHANGED << clock, lifeVars, appVars, captureVars, initialPrompts >>

\* the interval of lines 413-418 fires
PromptIntervalFires(i) ==
  /\ i \in promptIntervals
  /\ clock >= i.at
  /\ promptIntervals' = (promptIntervals \ {i}) \cup
       { [i EXCEPT !.at = clock + PROMPT_INTERVAL_MS] }
  /\ ev' = [NoEv("PromptIntervalFires") EXCEPT !.sent = PromptSent(i.ready)]
  /\ UNCHANGED << clock, lifeVars, appVars, captureVars, quietTimeouts, promptIntervalRef,
                  initialPrompts, timerSeq >>

\* ----------------------------------------------------------- frame capture
\* mutant: the table upside down
GetFrameIntervalReversed(nav, urgency) ==
  IF ~nav THEN DEFAULT_FRAME_INTERVAL_MS
  ELSE CASE urgency = "critical" -> 2000
         [] urgency = "high"     -> 1500
         [] urgency = "medium"   -> 1000
         [] urgency = "low"      -> 500
         [] OTHER                -> DEFAULT_FRAME_INTERVAL_MS

\* getFrameInterval, lines 611-621, of a closure with these values of
\* isNavigationMode and urgencyLevel
GetFrameInterval(nav, urgency) ==
  IF ~nav THEN DEFAULT_FRAME_INTERVAL_MS
  ELSE CASE urgency = "critical" -> 500
         [] urgency = "high"     -> 1000
         [] urgency = "medium"   -> 1500
         [] urgency = "low"      -> 2000
         [] OTHER                -> DEFAULT_FRAME_INTERVAL_MS

\* sendFrame, lines 636-684, of the loop with closure c; hasDims: the video
\* element has a width and a height; rest: the other frame timers pending;
\* seq: the ids handed out before.  A skipped run returns at line 638, before
\* line 683 sets the next one.  Otherwise the frame drawn awaits its blob and
\* the next run is set.
SendFrame(c, hasDims, rest, seq) ==
  IF ~hasDims \/ ~c.ready
    THEN /\ frameTimers' = rest
         /\ timerSeq' = seq
         /\ UNCHANGED << frameIntervalRef, pendingBlobs >>
    ELSE /\ timerSeq' = seq + 2
         /\ pendingBlobs' = pendingBlobs \cup
              { [id |-> seq + 1, stage |-> "blob", ready |-> c.ready] }
         /\ frameIntervalRef' = seq + 2
         /\ frameTimers' = rest \cup
              { [id |-> seq + 2, set |-> clock,
                 at |-> clock + GetFrameInterval(c.nav, c.urgency),
                 ready |-> c.ready, nav |-> c.nav, urgency |-> c.urgency] }

\* the timer set by line 683 fires
FrameTimerFires(f, hasDims) ==
  /\ f \in frameTimers
  /\ clock >= f.at
  /\ SendFrame(f, hasDims, frameTimers \ {f}, timerSeq)
  /\ ev' = [NoEv("FrameTimerFires") EXCEPT !.skipped = ~hasDims \/ ~f.ready]
  /\ UNCHANGED << numStarts, clock, lifeVars, appVars, quietTimeouts, promptIntervalRef,
                  promptIntervals, initialPrompts, captureCalls,
                  orientationCheckIntervalRef, frameCountRef, screenStreamRef,
                  cameraStreamRef >>

\* canvas.toBlob called back, lines 662-663: the blob goes to the FileReader
\* if a session object is held and the closure's isSessionReady is set
BlobReady(b) ==
  /\ b \in pendingBlobs
  /\ b.stage = "blob"
  /\ pendingBlobs' = IF liveSessionRef # 0 /\ b.ready
                       THEN (pendingBlobs \ {b}) \cup { [b EXCEPT !.stage = "read"] }
                       ELSE pendingBlobs \ {b}
  /\ ev' = NoEv("BlobReady")
  /\ UNCHANGED << numStarts, clock, lifeVars, appVars, timerVars, frameIntervalRef, frameTimers,
                  captureCalls, orientationCheckIntervalRef, frameCountRef,
                  screenStreamRef, cameraStreamRef >>

\* the FileReader finished, lines 669-677: the frame is counted and sent
FrameRead(b) ==
  /\ b \in pendingBlobs
  /\ b.stage = "read"
  /\ pendingBlobs' = pendingBlobs \ {b}
  /\ IF liveSessionRef # 0 /\ b.ready
       THEN /\ frameCountRef' = frameCountRef + 1
            /\ ev' = [NoEv("FrameRead") EXCEPT
                        !.sent = << Send("frame", isSessionReady) >>]
       ELSE /\ UNCHANGED frameCountRef
            /\ ev' = NoEv("FrameRead")
  /\ UNCHANGED << numStarts, clock, lifeVars, appVars, timerVars, frameIntervalRef, frameTimers,
                  captureCalls, orientationCheckIntervalRef, screenStreamRef,
                  cameraStreamRef >>

\* startFrameStreaming, lines 596-688, called by the capture call c: the
\* timers the two refs name are cleared (the refs keep their ids), the frame
\* count restarts, the initial prompt is set and sendFrame runs once
StartFrameStreaming(c, hasDims) ==
  /\ promptIntervals' = { i \in promptIntervals : i.id # promptIntervalRef }
  /\ frameCountRef' = 0
  /\ initialPrompts' = initialPrompts \cup
       { [id |-> timerSeq + 1, ready |-> c.ready,
          at |-> clock + INITIAL_PROMPT_DELAY_MS] }
  /\ SendFrame(c, hasDims, { f \in frameTimers : f.id # frameIntervalRef },
               timerSeq + 1)
  /\ UNCHANGED << quietTimeouts, promptIntervalRef >>

CaptureKinds == {"screen", "camera"}

\* startScreenShare / startCameraStream, lines 690-692 and 707-708: the call
\* passes the readiness check and asks for the device; it keeps the
\* isSessionReady, isNavigationMode and urgencyLevel of the render it was
\* made in
StartCaptureBegin(kind) ==
  /\ liveSessionRef # 0
  /\ isSessionReady
  /\ captureCalls' = captureCalls \cup
       { [n |-> numStarts + 1, kind |-> kind, stage |-> "device",
          ready |-> isSessionReady, nav |-> isNavigationMode,
          urgency |-> urgencyLevel] }
  /\ numStarts' = numStarts + 1
  /\ ev' = NoEv("StartCaptureBegin")
  /\ UNCHANGED << clock, lifeVars, appVars, timerVars, frameIntervalRef, frameTimers,
                  pendingBlobs, orientationCheckIntervalRef, frameCountRef,
                  screenStreamRef, cameraStreamRef >>

\* getDisplayMedia / getUserMedia resolved, lines 693-701 and 709-710: the
\* stream is kept and the video element is asked to play
CaptureDeviceGranted(c) ==
  /\ c \in captureCalls
  /\ c.stage = "device"
  /\ captureCalls' = (captureCalls \ {c}) \cup { [c EXCEPT !.stage = "play"] }
  /\ IF c.kind = "screen"
       THEN screenStreamRef' = TRUE /\ UNCHANGED cameraStreamRef
       ELSE cameraStreamRef' = TRUE /\ UNCHANGED screenStreamRef
  /\ ev' = NoEv("CaptureDeviceGranted")
  /\ UNCHANGED << numStarts, clock, lifeVars, appVars, timerVars, frameIntervalRef, frameTimers,
                  pendingBlobs, orientationCheckIntervalRef, frameCountRef >>

\* videoEl.play() resolved, lines 702-704 and 711-712: startFrameStreaming;
\* the screen call resolves and its caller (AIVisionGuideApp.tsx, line 110)
\* sets isSharingScreen; the camera call goes on to await the orientation
\* tracker
CapturePlaying(c, hasDims) ==
  /\ c \in captureCalls
  /\ c.stage = "play"
  /\ StartFrameStreaming(c, hasDims)
  /\ captureCalls' = IF c.kind = "camera"
                       THEN (captureCalls \ {c}) \cup { [c EXCEPT !.stage = "orient"] }
                       ELSE captureCalls \ {c}
  /\ isSharingScreen' = IF c.kind = "screen" THEN TRUE ELSE isSharingScreen
  /\ ev' = [NoEv("CapturePlaying") EXCEPT !.skipped = ~hasDims \/ ~c.ready]
  /\ UNCHANGED << numStarts, clock, lifeVars, isCameraActive, toggleCalls,
                  orientationCheckIntervalRef, screenStreamRef, cameraStreamRef >>

\* lines 714-727: the orientation tracker and the audio feedback started, the
\* 2 s orientation check is set; the call resolves and its caller
\* (AIVisionGuideApp.tsx, line 129) sets isCameraActive
CameraOrientationReady(c) ==
  /\ c \in captureCalls
  /\ c.stage = "orient"
  /\ captureCalls' = captureCalls \ {c}
  /\ orientationCheckIntervalRef' = TRUE
  /\ isCameraActive' = TRUE
  /\ ev' = NoEv("CameraOrientationReady")
  /\ UNCHANGED << numStarts, clock, lifeVars, isSharingScreen, toggleCalls, timerVars,
                  frameIntervalRef, frameTimers, pendingBlobs, frameCountRef,
                  screenStreamRef, cameraStreamRef >>

\* stopScreenShare, lines 443-448
StopScreenShare ==
  /\ ClearCaptureTimers
  /\ screenStreamRef' = FALSE
  /\ ev' = NoEv("StopScreenShare")
  /\ UNCHANGED << numStarts, clock, lifeVars, appVars, quietTimeouts, initialPrompts, timerSeq,
                  pendingBlobs, captureCalls, orientationCheckIntervalRef,
                  frameCountRef, cameraStreamRef >>

\* stopCameraStream, lines 450-460
StopCameraStream ==
  /\ ClearCaptureTimers
  /\ cameraStreamRef' = FALSE
  /\ orientationCheckIntervalRef' = FALSE
  /\ ev' = NoEv("StopCameraStream")
  /\ UNCHANGED << numStarts, clock, lifeVars, appVars, quietTimeouts, initialPrompts, timerSeq,
                  pendingBlobs, captureCalls, frameCountRef, screenStreamRef >>

\* ----------------------------------------------------- ReconnectionManager
Min(a, b) == IF a <= b THEN a ELSE b

\* mutant: the index is not capped and wraps around the schedule
GetCurrentDelayWraps(retryCount) ==
  RECONNECT_DELAYS[(retryCount % (Len(RECONNECT_DELAYS) - 1)) + 1]

\* getCurrentDelay, part_004 lines 105-108 (sequences are counted from 1)
GetCurrentDelay(retryCount) ==
  RECONNECT_DELAYS[Min(retryCount, Len(RECONNECT_DELAYS) - 1) + 1]

\* scheduleReconnect, lines 37-76, applied to the manager r
DoScheduleReconnect(r) ==
  IF r.isReconnecting THEN r
  ELSE IF r.retryCount >= MAX_RETRIES THEN [r EXCEPT !.failNotified = TRUE]
  ELSE [r EXCEPT !.isReconnecting = TRUE,
                 !.seq = @ + 1,
                 !.reconnectTimer = r.seq + 1,
                 !.timers = @ \cup { [id |-> r.seq + 1, retry |-> r.retryCount,
                                      delay |-> GetCurrentDelay(r.retryCount)] }]

\* cancelReconnect, lines 81-88
DoCancelReconnect(r) ==
  [r EXCEPT !.timers = { x \in @ : x.id # r.reconnectTimer },
            !.reconnectTimer = 0,
            !.isReconnecting = FALSE]

\* reset, lines 93-100
DoReset(r) ==
  [r EXCEPT !.retryCount = 0,
            !.isReconnecting = FALSE,
            !.timers = { x \in @ : x.id # r.reconnectTimer },
            !.reconnectTimer = 0,
            !.attempts = 0]

\* what every step of the manager leaves alone
ReconnectionStep(op) ==
  /\ ev' = NoEv(op)
  /\ UNCHANGED << clock, commentaryStatus, isSessionReady, isMicMuted, isMicMutedRef,
                  chatMessages, modeVars, liveSessionRef, nextStartTimeRef,
                  isAudioPlayingRef, activeSourcesRef, stoppedSources,
                  messageQueueRef, isProcessingQueueRef, decoding, procReady,
                  lastUserSpeechTimeRef, micVars, transports, numSessions, numMsgs,
                  initAwaiting, appVars, pcmVars, timerVars, captureVars, processedLog,
                  scheduledHist, interruptsDone, discardedIds >>

\* the owner's call, counted
CalledBy(r) == [r EXCEPT !.calls = @ + 1, !.failNotified = FALSE]

\* the owner calls scheduleReconnect(connectFn)
ScheduleReconnect ==
  /\ reconnectionManager' =
       DoScheduleReconnect([CalledBy(reconnectionManager) EXCEPT !.cancelled = FALSE])
  /\ ReconnectionStep("ScheduleReconnect")

\* the owner calls cancelReconnect()
CancelReconnect ==
  /\ reconnectionManager' =
       [DoCancelReconnect(CalledBy(reconnectionManager)) EXCEPT !.cancelled = TRUE]
  /\ ReconnectionStep("CancelReconnect")

\* the owner calls reset()
Reset ==
  /\ reconnectionManager' = DoReset(CalledBy(reconnectionManager))
  /\ ReconnectionStep("Reset")

\* the owner calls manualReconnect(connectFn), lines 134-138
ManualReconnect ==
  /\ reconnectionManager' =
       DoScheduleReconnect(DoReset([CalledBy(reconnectionManager) EXCEPT
                                      !.cancelled = FALSE]))
  /\ ReconnectionStep("ManualReconnect")

\* the timer x fires, lines 56-59: connectFn() is called and awaited
ReconnectTimerFires(x) ==
  /\ x \in reconnectionManager.timers
  /\ reconnectionManager' =
       [reconnectionManager EXCEPT !.timers = @ \ {x},
                                   !.connecting = @ \cup {x},
                                   !.attempts = @ + 1,
                                   !.failNotified = FALSE]
  /\ ReconnectionStep("ReconnectTimerFires")

\* connectFn() of the callback x resolved, lines 60-62
ConnectResolved(x) ==
  /\ x \in reconnectionManager.connecting
  /\ reconnectionManager' =
       DoReset([reconnectionManager EXCEPT !.connecting = @ \ {x},
                                           !.failNotified = FALSE])
  /\ ReconnectionStep("ConnectResolved")

\* connectFn() of the callback x rejected, lines 63-74
ConnectRejected(x) ==
  /\ x \in reconnectionManager.connecting
  /\ LET r == [reconnectionManager EXCEPT !.connecting = @ \ {x},
                                          !.retryCount = @ + 1,
                                          !.isReconnecting = FALSE,
                                          !.failNotified = FALSE]
     IN  reconnectionManager' =
           IF r.retryCount < MAX_RETRIES THEN DoScheduleReconnect(r)
           ELSE [r EXCEPT !.failNotified = TRUE]
  /\ ReconnectionStep("ConnectRejected")

\* ------------------------------------------------ the worklet's PCM encoder
\* A float sample is counted in units of 2^-16 (the integer k stands for
\* k / 65536, which a float32 holds exactly); 1.0 is 65536.

\* Math.max(-1, Math.min(1, x)), AIVisionGuideApp.tsx line 249
ClampSample(k) ==
  IF k > 65536 THEN 65536 ELSE IF k < -65536 THEN -65536 ELSE k

\* the conversion of a store into an Int16Array element (line 250): the
\* fraction is dropped, the integer is taken modulo 2^16 into -32768..32767
ToInt16(n) == ((n + 32768) % 65536) - 32768

\* Math.trunc of the quotient a / b, b > 0
TruncDiv(a, b) == IF a >= 0 THEN a \div b ELSE -((-a) \div b)

\* s * 0x7FFF for s = k / 65536, k >= 0, truncated: k is split into
\* 65536 * q + r so that no product leaves 32 bits
ScalePositive(k) ==
  (k \div 65536) * 32767 + ((k % 65536) * 32767) \div 65536

\* mutant: the sample is not clamped
Float32ToInt16SampleNoClamp(k) ==
  ToInt16(IF k < 0 THEN TruncDiv(k, 2) ELSE ScalePositive(k))

\* one iteration of the loop of float32ToInt16, lines 247-251:
\* s < 0 ? s * 0x8000 : s * 0x7FFF of the clamped sample, stored as int16
Float32ToInt16Sample(k) ==
  LET s == ClampSample(k)
  IN ToInt16(IF s < 0 THEN TruncDiv(s, 2) ELSE ScalePositive(s))

\* float32ToInt16, lines 245-253
Float32ToInt16(buffer) ==
  [i \in 1..Len(buffer) |-> Float32ToInt16Sample(buffer[i])]

\* process(inputs), lines 260-271; input: inputs[0], the channels of the
\* first input.  With a channel present its block is encoded and posted.
WorkletProcess(input) ==
  /\ workletInput' = input
  /\ workletPosted' = IF Len(input) > 0 THEN << Float32ToInt16(input[1]) >>
                                         ELSE <<>>
  /\ ev' = NoEv("WorkletProcess")
  /\ UNCHANGED << clock, commentaryStatus, isSessionReady, isMicMuted, isMicMutedRef,
                  chatMessages, modeVars, liveSessionRef, nextStartTimeRef,
                  isAudioPlayingRef, activeSourcesRef, stoppedSources,
                  messageQueueRef, isProcessingQueueRef, decoding, procReady,
                  lastUserSpeechTimeRef, micVars, transports, numSessions, numMsgs,
                  initAwaiting, appVars, timerVars, captureVars, processedLog,
                  scheduledHist, interruptsDone, discardedIds, reconnectionManager >>

\* ------------------------------------------------- capture starts that fail
\* the flag the caller of a start of this kind sets when the call settles
\* (AIVisionGuideApp.tsx, lines 110-113 and 129-133)
SetCaptureFlag(kind, value) ==
  IF kind = "screen"
    THEN isSharingScreen' = value /\ UNCHANGED isCameraActive
    ELSE isCameraActive' = value /\ UNCHANGED isSharingScreen

\* lines 691 and 708: the call throws before it asks for a device; its
\* caller's catch clears the flag
StartCaptureNotReady(kind) ==
  /\ ~(liveSessionRef # 0 /\ isSessionReady)
  /\ SetCaptureFlag(kind, FALSE)
  /\ ev' = NoEv("StartCaptureNotReady")
  /\ UNCHANGED << clock, lifeVars, toggleCalls, timerVars, captureVars >>

\* getDisplayMedia / getUserMedia rejected, lines 693 and 709: the call
\* rejects, nothing was assigned to the stream ref
CaptureDeviceDenied(c) ==
  /\ c \in captureCalls
  /\ c.stage = "device"
  /\ captureCalls' = captureCalls \ {c}
  /\ SetCaptureFlag(c.kind, FALSE)
  /\ ev' = NoEv("CaptureDeviceDenied")
  /\ UNCHANGED << numStarts, clock, lifeVars, toggleCalls, timerVars, frameIntervalRef,
                  frameTimers, pendingBlobs, orientationCheckIntervalRef,
                  frameCountRef, screenStreamRef, cameraStreamRef >>

\* videoEl.play() rejected, lines 702 and 711: the call rejects; the stream
\* assigned at line 693 / 709 stays in its ref, its tracks are not stopped
CapturePlayFails(c) ==
  /\ c \in captureCalls
  /\ c.stage = "play"
  /\ captureCalls' = captureCalls \ {c}
  /\ SetCaptureFlag(c.kind, FALSE)
  /\ ev' = NoEv("CapturePlayFails")
  /\ UNCHANGED << numStarts, clock, lifeVars, toggleCalls, timerVars, frameIntervalRef,
                  frameTimers, pendingBlobs, orientationCheckIntervalRef,
                  frameCountRef, screenStreamRef, cameraStreamRef >>

\* --------------------------------------------- the App's toggle handlers
\* handleToggleScreenShare, AIVisionGuideApp.tsx lines 98-115, up to its
\* first suspension.  Sharing: stopScreenShare (it awaits nothing) and the
\* flag is cleared.  Camera active: stopCameraStream runs up to its await of
\* audioFeedback.dispose() and the handler is suspended.  Otherwise
\* startScreenShare is called.
HandleToggleScreenShare ==
  \/ /\ isSharingScreen
     /\ ClearCaptureTimers
     /\ screenStreamRef' = FALSE
     /\ isSharingScreen' = FALSE
     /\ ev' = NoEv("HandleToggleScreenShare")
     /\ UNCHANGED << numStarts, clock, lifeVars, isCameraActive, toggleCalls,
                     quietTimeouts, initialPrompts, timerSeq, pendingBlobs,
                     captureCalls, orientationCheckIntervalRef, frameCountRef,
                     cameraStreamRef >>
  \/ /\ ~isSharingScreen
     /\ isCameraActive
     /\ ClearCaptureTimers
     /\ cameraStreamRef' = FALSE
     /\ orientationCheckIntervalRef' = FALSE
     /\ toggleCalls' = toggleCalls \cup
          { [handler |-> "screen", ready |-> isSessionReady,
             nav |-> isNavigationMode, urgency |-> urgencyLevel] }
     /\ ev' = NoEv("HandleToggleScreenShare")
     /\ UNCHANGED << numStarts, clock, lifeVars, isSharingScreen, isCameraActive,
                     quietTimeouts, initialPrompts, timerSeq, pendingBlobs,
                     captureCalls, frameCountRef, screenStreamRef >>
  \/ /\ ~isSharingScreen
     /\ ~isCameraActive
     /\ StartCaptureBegin("screen")

\* handleToggleCamera, AIVisionGuideApp.tsx lines 117-136, up to its first
\* suspension.  Camera active: stopCameraStream runs up to its await of
\* audioFeedback.dispose().  Sharing: stopScreenShare, the flag is cleared
\* and startCameraStream is called.  Otherwise startCameraStream is called.
HandleToggleCamera ==
  \/ /\ isCameraActive
     /\ ClearCaptureTimers
     /\ cameraStreamRef' = FALSE
     /\ orientationCheckIntervalRef' = FALSE
     /\ toggleCalls' = toggleCalls \cup
          { [handler |-> "camera", ready |-> isSessionReady,
             nav |-> isNavigationMode, urgency |-> urgencyLevel] }
     /\ ev' = NoEv("HandleToggleCamera")
     /\ UNCHANGED << numStarts, clock, lifeVars, isSharingScreen, isCameraActive,
                     quietTimeouts, initialPrompts, timerSeq, pendingBlobs,
                     captureCalls, frameCountRef, screenStreamRef >>
  \/ /\ ~isCameraActive
     /\ isSharingScreen
     /\ ClearCaptureTimers
     /\ screenStreamRef' = FALSE
     /\ isSharingScreen' = FALSE
     /\ IF liveSessionRef # 0 /\ isSessionReady
          THEN /\ captureCalls' = captureCalls \cup
                    { [n |-> numStarts + 1, kind |-> "camera", stage |-> "device",
                       ready |-> isSessionReady, nav |-> isNavigationMode,
                       urgency |-> urgencyLevel] }
               /\ numStarts' = numStarts + 1
          ELSE UNCHANGED << captureCalls, numStarts >>
     /\ ev' = NoEv("HandleToggleCamera")
     /\ UNCHANGED << clock, lifeVars, isCameraActive, toggleCalls, quietTimeouts,
                     initialPrompts, timerSeq, pendingBlobs,
                     orientationCheckIntervalRef, frameCountRef, cameraStreamRef >>
  \/ /\ ~isCameraActive
     /\ ~isSharingScreen
     /\ StartCaptureBegin("camera")

\* audioFeedback.dispose() settled (useLiveCommentary.ts line 459): the
\* suspended handler t clears isCameraActive (AIVisionGuideApp.tsx lines 105
\* and 122); the screen handler goes on to call the startScreenShare of the
\* render it was made in
ToggleStopResolved(t) ==
  /\ t \in toggleCalls
  /\ toggleCalls' = toggleCalls \ {t}
  /\ isCameraActive' = FALSE
  /\ IF t.handler = "screen" /\ liveSessionRef # 0 /\ t.ready
       THEN /\ captureCalls' = captureCalls \cup
                 { [n |-> numStarts + 1, kind |-> "screen", stage |-> "device",
                    ready |-> t.ready, nav |-> t.nav, urgency |-> t.urgency] }
            /\ numStarts' = numStarts + 1
            /\ UNCHANGED isSharingScreen
       ELSE /\ isSharingScreen' = IF t.handler = "screen" THEN FALSE
                                                          ELSE isSharingScreen
            /\ UNCHANGED << captureCalls, numStarts >>
  /\ ev' = NoEv("ToggleStopResolved")
  /\ UNCHANGED << clock, lifeVars, timerVars, frameIntervalRef, frameTimers,
                  pendingBlobs, orientationCheckIntervalRef, frameCountRef,
                  screenStreamRef, cameraStreamRef >>

\* -------------------------------------------------------------- microphone
RECURSIVE SumSquares(_)
SumSquares(samples) ==
  IF samples = <<>> THEN 0
  ELSE Head(samples) * Head(samples) + SumSquares(Tail(samples))

\* lines 248-253 and the first conjunct of line 259:
\* sqrt(sum((x / 32768)^2) / n) > 0.01, i.e. sum(x^2) * 10000 > n * 2^30
RmsAboveThreshold(samples) ==
  SumSquares(samples) * 625 > Len(samples) * 67108864

\* mutant: no cooldown
BargeInNoCooldown(samples) ==
  /\ RmsAboveThreshold(samples)
  /\ isAudioPlayingRef
  /\ ~isMicMutedRef

\* mutant: the mute flag is not consulted
BargeInIgnoresMute(samples) ==
  /\ RmsAboveThreshold(samples)
  /\ isAudioPlayingRef
  /\ DateNow - lastUserSpeechTimeRef > SPEECH_COOLDOWN_MS

\* line 259-262
BargeInTriggers(samples) ==
  /\ RmsAboveThreshold(samples)
  /\ isAudioPlayingRef
  /\ DateNow - lastUserSpeechTimeRef > SPEECH_COOLDOWN_MS
  /\ ~isMicMutedRef

\* detectUserSpeech, lines 246-281, of the closure whose isSessionReady is ready
DetectUserSpeech(samples, ready) ==
  IF BargeInTriggers(samples)
    THEN LET f == [StopAndClearAudio(ProcState) EXCEPT
                     !.discarded = @ \cup
                        { messageQueueRef[i].id : i \in 1..Len(messageQueueRef) },
                     !.queue = <<>>,
                     !.nextStart = clock,
                     !.status = IF ready THEN "Listening" ELSE "Disconnected"]
         IN  /\ lastUserSpeechTimeRef' = DateNow
             /\ SetProc([f EXCEPT !.flush = "bargein", !.post = Snapshot(f)])
    ELSE UNCHANGED << lastUserSpeechTimeRef, procVars >>

\* mutant: a frame that triggered barge-in is not sent
MicSendsUnlessBargeIn(samples) ==
  IF liveSessionRef # 0 /\ ~isMicMutedRef /\ ~BargeInTriggers(samples)
    THEN << Send("audio", isSessionReady) >> ELSE <<>>

\* lines 535-538: the frame is sent if a session object is held and the
\* microphone is not muted
MicSends(samples) ==
  IF liveSessionRef # 0 /\ ~isMicMutedRef
    THEN << Send("audio", isSessionReady) >> ELSE <<>>

\* audioWorkletNode.port.onmessage, lines 528-545, of session t's worklet
MicFrame(t, samples) ==
  /\ t \in openPorts
  /\ DetectUserSpeech(samples, transports[t].ready)
  /\ ev' = [NoEv("MicFrame") EXCEPT
              !.loud = RmsAboveThreshold(samples),
              !.trigger = BargeInTriggers(samples),
              !.flush = IF BargeInTriggers(samples) THEN "bargein" ELSE "none",
              !.post = IF BargeInTriggers(samples)
                         THEN [active |-> activeSourcesRef', playing |-> isAudioPlayingRef',
                               nextStart |-> nextStartTimeRef']
                         ELSE NoPost,
              !.sent = MicSends(samples)]
  /\ UNCHANGED << clock, isSessionReady, isMicMuted, isMicMutedRef, pcmVars, reconnectionManager, appVars,
                  liveSessionRef, procReady, micVars, transports, numSessions,
                  numMsgs, initAwaiting, timerVars, captureVars >>

\* mutant: the ref is written with the old value
ToggleMicMuteStaleRef ==
  /\ isMicMuted' = ~isMicMuted
  /\ isMicMutedRef' = isMicMuted
  /\ ev' = [NoEv("ToggleMicMute") EXCEPT !.wasMuted = isMicMutedRef]
  /\ UNCHANGED << clock, commentaryStatus, isSessionReady, chatMessages,
                  pcmVars, reconnectionManager, appVars, modeVars, liveSessionRef, nextStartTimeRef,
                  isAudioPlayingRef, activeSourcesRef, stoppedSources,
                  messageQueueRef, isProcessingQueueRef, decoding, procReady,
                  lastUserSpeechTimeRef, microphoneStreamRef, audioWorkletNodeRef,
                  openPorts, transports, numSessions, numMsgs,
                  initAwaiting, timerVars, captureVars,
                  processedLog, scheduledHist, interruptsDone, discardedIds >>

\* toggleMicMute, lines 730-737, with the effect of lines 759-761
ToggleMicMute ==
  /\ isMicMuted' = ~isMicMuted
  /\ isMicMutedRef' = ~isMicMuted
  /\ ev' = [NoEv("ToggleMicMute") EXCEPT !.wasMuted = isMicMutedRef]
  /\ UNCHANGED << clock, commentaryStatus, isSessionReady, chatMessages,
                  pcmVars, reconnectionManager, appVars, modeVars, liveSessionRef, nextStartTimeRef,
                  isAudioPlayingRef, activeSourcesRef, stoppedSources,
                  messageQueueRef, isProcessingQueueRef, decoding, procReady,
                  lastUserSpeechTimeRef, micVars, transports, numSessions, numMsgs,
                  initAwaiting, timerVars, captureVars, processedLog,
                  scheduledHist, interruptsDone, discardedIds >>

\* toggleNavigationMode, lines 739-756
ToggleNavigationMode ==
  /\ isNavigationMode' = ~isNavigationMode
  /\ commentaryStatus' = IF ~isNavigationMode THEN "NavigationMode" ELSE "NormalMode"
  /\ ev' = [NoEv("ToggleNavigationMode") EXCEPT
              !.sent = IF liveSessionRef # 0
                         THEN << Send("text", isSessionReady) >> ELSE <<>>]
  /\ UNCHANGED << clock, isSessionReady, isMicMuted, isMicMutedRef, pcmVars, reconnectionManager, appVars, chatMessages,
                  urgencyLevel, detectedDistance,
                  liveSessionRef, nextStartTimeRef, isAudioPlayingRef,
                  activeSourcesRef, stoppedSources, messageQueueRef,
                  isProcessingQueueRef, decoding, procReady, lastUserSpeechTimeRef,
                  micVars, transports, numSessions, numMsgs, initAwaiting,
                  timerVars, captureVars, processedLog, scheduledHist,
                  interruptsDone, discardedIds >>

\* ---------------------------------------------------------- specifications
\* Spec: the lifecycle of one session (open, error, close, stop) with its
\* microphone and few messages of two shapes
LifeShapes ==
  { [interrupted |-> TRUE,  text |-> "none", audio |-> 0],
    [interrupted |-> FALSE, text |-> "ai",   audio |-> 300] }

Next ==
  \/ clock < MaxClock /\ Tick
  \/ numSessions < 1 /\ InitLiveSession
  \/ StopLiveSession
  \/ \E t \in Sessions : TransportOpen(t)
  \/ \E t \in Sessions : MicSetupDone(t)
  \/ \E t \in Sessions : MicSetupFail(t)
  \/ \E t \in Sessions : OnError(t)
  \/ \E t \in Sessions : OnClose(t)
  \/ \E t \in Sessions, shape \in LifeShapes : numMsgs < MaxMsgs /\ OnMessage(t, shape)
  \/ \E m \in decoding : DecodeDone(m)
  \/ \E m \in decoding : DecodeFail(m)
  \/ \E c \in activeSourcesRef \cup stoppedSources : SourceEnded(c)
  \/ \E t \in Sessions, samples \in MicFrames : MicFrame(t, samples)

Spec == Init /\ [][Next]_vars

\* SpecSched: one session that stays open, no microphone; messages with and
\* without the interruption flag and audio of either duration
SchedShapes == { s \in MsgShapes : s.text = "none" }

NextSched ==
  \/ clock < SchedMaxClock /\ Tick
  \/ numSessions < 1 /\ InitLiveSession
  \/ \E t \in Sessions : TransportOpen(t)
  \/ \E t \in Sessions : MicSetupFail(t)
  \/ \E t \in Sessions, shape \in SchedShapes : numMsgs < SchedMaxMsgs /\ OnMessage(t, shape)
  \/ \E m \in decoding : DecodeDone(m)
  \/ \E m \in decoding : DecodeFail(m)
  \/ \E c \in activeSourcesRef \cup stoppedSources : SourceEnded(c)

SpecSched == Init /\ [][NextSched]_vars

\* SpecMic: one session with its microphone, audio-only messages, mute toggles
MicShapes == { s \in MsgShapes : s.text = "none" /\ ~s.interrupted /\ s.audio # 0 }

NextMic ==
  \/ clock < MicMaxClock /\ Tick
  \/ numSessions < 1 /\ InitLiveSession
  \/ \E t \in Sessions : TransportOpen(t)
  \/ \E t \in Sessions : MicSetupDone(t)
  \/ \E t \in Sessions : OnClose(t)
  \/ \E t \in Sessions, shape \in MicShapes : numMsgs < MicMaxMsgs /\ OnMessage(t, shape)
  \/ \E m \in decoding : DecodeDone(m)
  \/ \E c \in activeSourcesRef \cup stoppedSources : SourceEnded(c)
  \/ \E t \in Sessions, samples \in MicFrames : MicFrame(t, samples)
  \/ ToggleMicMute

SpecMic == Init /\ [][NextMic]_vars

\* SpecRestart: initLiveSession called again, while the first connection is
\* being opened, is open, is closing or is gone; text-only messages that set
\* the urgency and the navigation mode
RestartShapes ==
  { AiText(<<"0.5", "meters">>), AiText(<<"navigation", "mode">>) }

NextRestart ==
  \/ clock < RestartMaxClock /\ Tick
  \/ numSessions < MaxSessions /\ InitLiveSession
  \/ numSessions < MaxSessions /\ InitLiveSessionRestart
  \/ InitLiveSessionResume
  \/ StopLiveSession
  \/ \E t \in Sessions : TransportOpen(t)
  \/ \E t \in Sessions : MicSetupDone(t)
  \/ \E t \in Sessions : OnError(t)
  \/ \E t \in Sessions : OnClose(t)
  \/ \E t \in Sessions, shape \in RestartShapes :
        numMsgs < RestartMaxMsgs /\ OnMessage(t, shape)

SpecRestart == Init /\ [][NextRestart]_vars

\* SpecFrames: one session whose microphone setup fails, a screen or camera
\* capture with its frame loop; a text message with a distance of each
\* urgency band and the phrase that switches navigation mode on, or with a
\* distance alone
FrameShapes ==
  { AiText(<<"navigation", "mode", d, "meters">>) :
       d \in {"0.5", "1.5", "2.5", "3.5"} } \cup
  { AiText(<<"0.5", "meters">>) }

NextFrames ==
  \/ clock < FramesMaxClock /\ Tick
  \/ numSessions < 1 /\ InitLiveSession
  \/ \E t \in Sessions : TransportOpen(t)
  \/ \E t \in Sessions : MicSetupFail(t)
  \/ \E t \in Sessions, shape \in FrameShapes :
        numMsgs < FramesMaxMsgs /\ OnMessage(t, shape)
  \/ \E kind \in CaptureKinds : numStarts < MaxStarts /\ StartCaptureBegin(kind)
  \/ \E c \in captureCalls : CaptureDeviceGranted(c)
  \/ \E c \in captureCalls, hasDims \in BOOLEAN : CapturePlaying(c, hasDims)
  \/ \E c \in captureCalls : CameraOrientationReady(c)
  \/ \E f \in frameTimers, hasDims \in BOOLEAN : FrameTimerFires(f, hasDims)
  \/ \E b \in pendingBlobs : BlobReady(b)
  \/ \E b \in pendingBlobs : FrameRead(b)

SpecFrames == Init /\ [][NextFrames]_vars

\* SpecParse: one session; AI texts with a distance in metres or feet in each
\* urgency band and on each boundary, with and without "stop", with number
\* words, with no distance; a user text
ParseTexts ==
  { <<"STOP", "Wall", "half", "meter">>,
    <<"Clear", "path", "Five", "meters">>,
    <<"Obstacle", "right", "Four", "feet">>,
    <<"Person", "ahead", "2", "meters">>,
    <<"wall", "1", "meter">>,
    <<"door", "3", "m">>,
    <<"0.5", "meters">>,
    <<"stairs", "4", "feet">>,
    <<"step", "3", "feet">>,
    <<"Stop", "5", "meters">>,
    <<"2", "feet", "or", "5", "metres">>,
    <<"clear", "ahead">> }

ParseShapes ==
  { AiText(words) : words \in ParseTexts } \cup
  { [interrupted |-> FALSE, text |-> "user", audio |-> 0] }

NextParse ==
  \/ clock < ParseMaxClock /\ Tick
  \/ numSessions < 1 /\ InitLiveSession
  \/ \E t \in Sessions : TransportOpen(t)
  \/ \E t \in Sessions, shape \in ParseShapes :
        numMsgs < ParseMaxMsgs /\ OnMessage(t, shape)

SpecParse == Init /\ [][NextParse]_vars

\* SpecChat: one session and text messages enough to fill the transcript:
\* AI texts first, then user and AI texts in any order
ChatShapes ==
  { [interrupted |-> FALSE, text |-> who, audio |-> 0] : who \in {"user", "ai"} }

NextChat ==
  \/ numSessions < 1 /\ InitLiveSession
  \/ \E t \in Sessions : TransportOpen(t)
  \/ \E t \in Sessions, shape \in ChatShapes :
        /\ numMsgs < ChatMaxMsgs
        /\ numMsgs < ChatFill => shape.text = "ai"
        /\ OnMessage(t, shape)

SpecChat == Init /\ [][NextChat]_vars

\* SpecFaults: one session; messages with audio whose decode succeeds or
\* fails, a message whose modelTurn has no parts, AI texts
FaultShapes ==
  { [interrupted |-> FALSE, text |-> "none", audio |-> 300],
    [interrupted |-> FALSE, text |-> "none", audio |-> 0, bad |-> TRUE],
    [interrupted |-> FALSE, text |-> "ai", audio |-> 0] }

NextFaults ==
  \/ clock < FaultsMaxClock /\ Tick
  \/ numSessions < 1 /\ InitLiveSession
  \/ \E t \in Sessions : TransportOpen(t)
  \/ \E t \in Sessions, shape \in FaultShapes :
        numMsgs < FaultsMaxMsgs /\ OnMessage(t, shape)
  \/ \E m \in decoding : DecodeDone(m)
  \/ \E m \in decoding : DecodeFail(m)
  \/ \E c \in activeSourcesRef \cup stoppedSources : SourceEnded(c)

SpecFaults == Init /\ [][NextFaults]_vars

\* the stream buttons are enabled (ChatInterface.tsx line 116: the session
\* is active and ready); every call of a start counts against ToggleMaxStarts
ToggleEnabled ==
  /\ liveSessionRef # 0
  /\ isSessionReady
  /\ numStarts + Cardinality(toggleCalls) < ToggleMaxStarts

\* SpecReconnect: a ReconnectionManager with the default configuration, its
\* owner calling it, its timers firing, connectFn resolving or rejecting
NextReconnect ==
  \/ reconnectionManager.calls < ReconnectMaxCalls /\ ScheduleReconnect
  \/ reconnectionManager.calls < ReconnectMaxCalls /\ CancelReconnect
  \/ reconnectionManager.calls < ReconnectMaxCalls /\ Reset
  \/ reconnectionManager.calls < ReconnectMaxCalls /\ ManualReconnect
  \/ \E x \in reconnectionManager.timers : ReconnectTimerFires(x)
  \/ \E x \in reconnectionManager.connecting : ConnectResolved(x)
  \/ \E x \in reconnectionManager.connecting : ConnectRejected(x)

SpecReconnect == Init /\ [][NextReconnect]_vars

\* SpecClock: a session, and one started after it was closed, their microphone,
\* messages that carry audio or the interruption flag
ClockShapes ==
  { [interrupted |-> TRUE,  text |-> "none", audio |-> 0],
    [interrupted |-> FALSE, text |-> "none", audio |-> 1200] }

\* a microphone frame above the speech threshold
ClockLoudFrame == << 328, -328 >>

NextClock ==
  \/ /\ numSessions < ClockMaxSessions
     /\ \A t \in Sessions : transports[t].state \in {"none", "closed"}
     /\ InitLiveSession
  \/ \E t \in Sessions : TransportOpen(t)
  \/ \E t \in Sessions : MicSetupDone(t)
  \/ \E t \in Sessions : OnClose(t)
  \/ \E t \in Sessions, shape \in ClockShapes :
        numMsgs < ClockMaxMsgs /\ OnMessage(t, shape)
  \/ \E m \in decoding : DecodeDone(m)
  \/ \E c \in activeSourcesRef \cup stoppedSources : SourceEnded(c)
  \/ \E t \in Sessions : MicFrame(t, ClockLoudFrame)

SpecClock == Init /\ [][NextClock]_vars

\* SpecPcm: the audio engine calls process() with blocks of these samples:
\* silence, the smallest fractions, a value just above a half, the values
\* next to and at full scale, and values beyond it
PcmSamples == { -98304, -65537, -65536, -65535, -1, 0,
                1, 32769, 65535, 65536, 65537, 98304 }

PcmBlocks == UNION { [1..n -> PcmSamples] : n \in 0..PcmMaxLen }

PcmInputs == { <<>> } \cup { << b >> : b \in PcmBlocks }

NextPcm == \E input \in PcmInputs : WorkletProcess(input)

SpecPcm == Init /\ [][NextPcm]_vars

\* SpecToggle: one session that stays open; the camera and the screen-share
\* buttons of the App, the device and the video element answering either way
NextToggle ==
  \/ numSessions < 1 /\ InitLiveSession
  \/ \E t \in Sessions : TransportOpen(t)
  \/ ToggleEnabled /\ HandleToggleScreenShare
  \/ ToggleEnabled /\ HandleToggleCamera
  \/ \E t \in toggleCalls : ToggleStopResolved(t)
  \/ \E c \in captureCalls : CaptureDeviceGranted(c)
  \/ \E c \in captureCalls : CaptureDeviceDenied(c)
  \/ \E c \in captureCalls : CapturePlaying(c, TRUE)
  \/ \E c \in captureCalls : CapturePlayFails(c)
  \/ \E c \in captureCalls : CameraOrientationReady(c)

SpecToggle == Init /\ [][NextToggle]_vars

\* SpecStartFail: the start functions of the hook called at any time, the
\* device and the video element answering either way
NextStartFail ==
  \/ numSessions < 1 /\ InitLiveSession
  \/ \E t \in Sessions : TransportOpen(t)
  \/ \E kind \in CaptureKinds : StartCaptureNotReady(kind)
  \/ \E kind \in CaptureKinds :
        numStarts < FailMaxStarts /\ StartCaptureBegin(kind)
  \/ \E c \in captureCalls : CaptureDeviceGranted(c)
  \/ \E c \in captureCalls : CaptureDeviceDenied(c)
  \/ \E c \in captureCalls : CapturePlaying(c, TRUE)
  \/ \E c \in captureCalls : CapturePlayFails(c)
  \/ \E c \in captureCalls : CameraOrientationReady(c)

SpecStartFail == Init /\ [][NextStartFail]_vars

\* SpecQuiet: one session that stays open, two audio messages, a screen
\* capture with its frame loop, the initial-prompt and quiet-period timeouts
QuietShapes == { [interrupted |-> FALSE, text |-> "none", audio |-> 300] }

NextQuiet ==
  \/ clock < QuietMaxClock /\ TickBy(QuietTickMs)
  \/ numSessions < 1 /\ InitLiveSession
  \/ \E t \in Sessions : TransportOpen(t)
  \/ \E t \in Sessions, shape \in QuietShapes :
        numMsgs < QuietMaxMsgs /\ OnMessage(t, shape)
  \/ \E m \in decoding : DecodeDone(m)
  \/ \E c \in activeSourcesRef \cup stoppedSources : SourceEnded(c)
  \/ numStarts < QuietMaxStarts /\ StartCaptureBegin("screen")
  \/ \E c \in captureCalls : CaptureDeviceGranted(c)
  \/ \E c \in captureCalls : CapturePlaying(c, TRUE)
  \/ \E f \in frameTimers : FrameTimerFires(f, TRUE)
  \/ \E b \in pendingBlobs : BlobReady(b)
  \/ \E b \in pendingBlobs : FrameRead(b)
  \/ \E p \in initialPrompts : InitialPromptFires(p)
  \/ \E q \in quietTimeouts : QuietTimeoutFires(q)

SpecQuiet == Init /\ [][NextQuiet]_vars

\* SpecLoop: one session, a screen capture whose video element has its
\* dimensions, a text message that sets the urgency and the navigation mode,
\* the navigation mode button
LoopShapes ==
  { AiText(<<"navigation", "mode", d, "meters">>) : d \in {"0.5", "1.5"} } \cup
  { AiText(<<"2.5", "meters">>) }

NextLoop ==
  \/ clock < LoopMaxClock /\ Tick
  \/ numSessions < 1 /\ InitLiveSession
  \/ \E t \in Sessions : TransportOpen(t)
  \/ \E t \in Sessions, shape \in LoopShapes :
        numMsgs < LoopMaxMsgs /\ OnMessage(t, shape)
  \/ ToggleNavigationMode
  \/ numStarts < LoopMaxStarts /\ StartCaptureBegin("screen")
  \/ \E c \in captureCalls : CaptureDeviceGranted(c)
  \/ \E c \in captureCalls : CapturePlaying(c, TRUE)
  \/ \E f \in frameTimers : FrameTimerFires(f, TRUE)
  \/ \E b \in pendingBlobs : BlobReady(b)
  \/ \E b \in pendingBlobs : FrameRead(b)

SpecLoop == Init /\ [][NextLoop]_vars

\* SpecPrompts: one session, one audio message, a screen capture whose video
\* element has its dimensions, the initial-prompt and quiet-period timeouts,
\* and the five ways capture or the session stops
PromptShapes == { [interrupted |-> FALSE, text |-> "none", audio |-> 300] }

NextPrompts ==
  \/ clock < PromptsMaxClock /\ TickBy(PromptsTickMs)
  \/ numSessions < 1 /\ InitLiveSession
  \/ \E t \in Sessions : TransportOpen(t)
  \/ \E t \in Sessions : OnError(t)
  \/ \E t \in Sessions : OnClose(t)
  \/ StopLiveSession
  \/ \E t \in Sessions, shape \in PromptShapes :
        numMsgs < PromptsMaxMsgs /\ OnMessage(t, shape)
  \/ \E m \in decoding : DecodeDone(m)
  \/ \E c \in activeSourcesRef \cup stoppedSources : SourceEnded(c)
  \/ numStarts < MaxStarts /\ StartCaptureBegin("screen")
  \/ \E c \in captureCalls : CaptureDeviceGranted(c)
  \/ \E c \in captureCalls : CapturePlaying(c, TRUE)
  \/ \E f \in frameTimers : FrameTimerFires(f, TRUE)
  \/ \E b \in pendingBlobs : BlobReady(b)
  \/ \E b \in pendingBlobs : FrameRead(b)
  \/ StopScreenShare
  \/ StopCameraStream
  \/ \E p \in initialPrompts : InitialPromptFires(p)
  \/ \E q \in quietTimeouts : QuietTimeoutFires(q)

SpecPrompts == Init /\ [][NextPrompts]_vars

\* ------------------------------------------------------------------ claims

\* C1: in every reachable state, every outbound message of the last step
\* (microphone audio, prompt or instruction text) was sent while the session
\* state was Ready.
C1_SendsOnlyWhenReady ==
  \A i \in 1..Len(ev.sent) : ev.sent[i].ready

C3_SingleConsumerFifo ==
  /\ Cardinality(decoding) <= 1
  /\ decoding # {} => isProcessingQueueRef
  /\ \A i, j \in 1..Len(processedLog) : i < j => processedLog[i] < processedLog[j]
  /\ \A i, j \in 1..Len(messageQueueRef) :
       i < j => messageQueueRef[i].id < messageQueueRef[j].id
  /\ \A i \in 1..Len(messageQueueRef), j \in 1..Len(processedLog) :
       processedLog[j] < messageQueueRef[i].id
  /\ \A id \in 1..numMsgs :
       \/ id \in SeqToSet(processedLog)
       \/ id \in discardedIds
       \/ \E i \in 1..Len(messageQueueRef) : messageQueueRef[i].id = id

\* a message awaits its decode while a later one waits in the queue
C3_Witness ==
  /\ decoding # {}
  /\ messageQueueRef # <<>>
  /\ Len(processedLog) >= 2

\* C4 as claimed: once an interrupted message has been handled, no chunk of a
\* message received up to and including it is in flight.
C4_NoAudioUpToInterruption ==
  \A c \in activeSourcesRef : \A m \in interruptsDone : c.id > m

\* C4 as amended: once an interrupted message has been handled, no chunk of a
\* message received before it is in flight (its own chunk may be); right after
\* the flush the in-flight set is empty and every message delivered so far is
\* processed or discarded; a discarded message is never processed.
C4_InterruptionDiscardsStale ==
  /\ \A c \in activeSourcesRef : \A m \in interruptsDone : c.id >= m
  /\ ev.flush = "interrupt" =>
       /\ ev.post.active = {}
       /\ \A id \in 1..numMsgs : id \in SeqToSet(processedLog) \/ id \in discardedIds
  /\ discardedIds \cap SeqToSet(processedLog) = {}

\* an interruption that stopped a chunk and discarded a queued message
C4_Witness ==
  /\ ev.flush = "interrupt"
  /\ interruptsDone # {}
  /\ stoppedSources # {}
  /\ discardedIds # {}

\* C5: a microphone frame that meets the four barge-in conditions leaves the
\* in-flight set and the message queue empty; an above-threshold frame within
\* the cooldown window of the last trigger changes nothing of the scheduler,
\* the queue or the last-trigger time.
C5_BargeInStep ==
  ev'.op = "MicFrame" =>
    /\ ( /\ ev'.loud
         /\ isAudioPlayingRef
         /\ DateNow - lastUserSpeechTimeRef > SPEECH_COOLDOWN_MS
         /\ ~isMicMutedRef )
       => activeSourcesRef' = {} /\ messageQueueRef' = <<>>
    /\ ( /\ ev'.loud
         /\ lastUserSpeechTimeRef # 0
         /\ DateNow - lastUserSpeechTimeRef <= SPEECH_COOLDOWN_MS )
       => UNCHANGED << activeSourcesRef, stoppedSources, isAudioPlayingRef,
                       messageQueueRef, nextStartTimeRef, lastUserSpeechTimeRef >>

C5_BargeInAndCooldown == [][C5_BargeInStep]_vars

\* a loud, unmuted frame within the cooldown of an earlier trigger, with AI
\* audio playing again
C5_Witness ==
  /\ ev.op = "MicFrame"
  /\ ev.loud
  /\ ~ev.trigger
  /\ isAudioPlayingRef
  /\ ~isMicMutedRef
  /\ lastUserSpeechTimeRef # 0
  /\ activeSourcesRef # {}

\* C6: a microphone frame for which one of the four barge-in conditions fails
\* leaves the in-flight set, the queue, nextStartTime, the last-trigger time
\* and the status unchanged.
C6_NoTriggerStep ==
  ( /\ ev'.op = "MicFrame"
    /\ ~( /\ ev'.loud
          /\ isAudioPlayingRef
          /\ DateNow - lastUserSpeechTimeRef > SPEECH_COOLDOWN_MS
          /\ ~isMicMutedRef ) )
  => UNCHANGED << activeSourcesRef, messageQueueRef, nextStartTimeRef,
                  lastUserSpeechTimeRef, commentaryStatus >>

C7_FrameSentUnlessMuted ==
  ev.op = "MicFrame" =>
    /\ (liveSessionRef # 0 /\ ~isMicMutedRef) =>
         Len(ev.sent) = 1 /\ ev.sent[1].kind = "audio"
    /\ isMicMutedRef => ev.sent = <<>>

\* a frame that triggered barge-in and was sent
C7_Witness ==
  /\ ev.op = "MicFrame"
  /\ ev.trigger
  /\ Len(ev.sent) = 1

\* C8: toggleMicMute flips the mute flag and leaves the microphone stream,
\* the worklet, the session reference, the queue and the playback state
\* alone; the frame after a toggle is sent or not by the new flag; a second
\* toggle right after the first restores the flag.
C8_ToggleStep ==
  /\ ev'.op = "ToggleMicMute" =>
       /\ isMicMuted' = ~isMicMuted
       /\ isMicMutedRef' = ~isMicMutedRef
       /\ UNCHANGED << microphoneStreamRef, audioWorkletNodeRef, openPorts,
                       liveSessionRef, messageQueueRef, isAudioPlayingRef,
                       activeSourcesRef, nextStartTimeRef >>
  /\ (ev.op = "ToggleMicMute" /\ ev'.op = "MicFrame" /\ liveSessionRef # 0) =>
       (ev'.sent = <<>>) = ~ev.wasMuted
  /\ (ev.op = "ToggleMicMute" /\ ev'.op = "ToggleMicMute") =>
       isMicMuted' = ev.wasMuted /\ isMicMutedRef' = ev.wasMuted

C8_ToggleOnlyFlipsMute == [][C8_ToggleStep]_vars

\* a toggle to muted while the capture pipeline is up and audio is playing
C8_Witness ==
  /\ ev.op = "ToggleMicMute"
  /\ isMicMutedRef
  /\ openPorts # {}
  /\ microphoneStreamRef # 0
  /\ activeSourcesRef # {}

C9_FlushStep ==
  ev'.flush # "none" =>
    /\ activeSourcesRef \subseteq stoppedSources'
    /\ ev'.post.active = {}
    /\ ~ev'.post.playing
    /\ ev'.flush \in {"interrupt", "bargein"} => ev'.post.nextStart = clock'

C10_FlushIdempotent ==
  LET once  == StopAndClearAudio(ProcState)
      twice == StopAndClearAudio(once)
  IN  /\ twice = once
      /\ once.active = {} /\ ~once.playing
      /\ activeSourcesRef = {} => once.stopped = stoppedSources

\* a close-path flush that found nothing in flight, a message still awaiting
\* its decode
C10_Witness ==
  /\ ev.flush = "close"
  /\ stoppedSources = {}
  /\ decoding # {}
  /\ ~isAudioPlayingRef

\* C11: when initLiveSession, called while the session was Ready, requests
\* the new connection, the microphone stream and the worklet of the prior
\* session are released, no camera or screen stream is held and no frame or
\* prompt timer is pending.
C11_RestartTearsDownFirst ==
  ( /\ ev.op = "InitLiveSessionResume"
    /\ commentaryStatus = "Connecting"
    /\ transports[numSessions].ready )
  => /\ microphoneStreamRef = 0
     /\ audioWorkletNodeRef = 0
     /\ openPorts = {}
     /\ ~screenStreamRef
     /\ ~cameraStreamRef
     /\ frameTimers = {}
     /\ promptIntervals = {}
     /\ quietTimeouts = {}
     /\ initialPrompts = {}

\* C12: at most one transport is open or being opened, and when initLiveSession
\* has requested a connection every connection requested before is closed.
C12_AtMostOneTransport ==
  /\ Cardinality({ t \in Sessions : transports[t].state \in {"connecting", "open"} }) <= 1
  /\ ( /\ ev.op \in {"InitLiveSession", "InitLiveSessionResume"}
       /\ commentaryStatus = "Connecting" )
     => \A t \in Sessions :
          t # numSessions => transports[t].state \in {"none", "closed"}

\* C17: whenever the session has just entered Ready on transport open, the
\* transcript is empty, the urgency level is low and navigation mode is off.
C17_OpenResets ==
  ev.op = "TransportOpen" =>
    /\ chatMessages = <<>>
    /\ urgencyLevel = "low"
    /\ ~isNavigationMode

\* C13: stopLiveSession leaves the session state not Ready, and when close()
\* threw it leaves the in-flight set empty, the session reference cleared, the
\* microphone stream and the worklet released and the status Idle.
C13_StopStep ==
  ev'.op = "StopLiveSession" =>
    /\ ~isSessionReady'
    /\ ev'.flush = "forced" =>
         /\ activeSourcesRef' = {}
         /\ liveSessionRef' = 0
         /\ microphoneStreamRef' = 0
         /\ audioWorkletNodeRef' = 0
         /\ audioWorkletNodeRef \notin openPorts'
         /\ commentaryStatus' = "Idle"

C13_StopCompletesWhenCloseThrows == [][C13_StopStep]_vars

\* a stop whose close() threw while a chunk was in flight and the microphone
\* was capturing
C13_Witness ==
  /\ ev.op = "StopLiveSession"
  /\ ev.flush = "forced"
  /\ stoppedSources # {}
  /\ \E t \in Sessions : transports[t].mic = "done" /\ t \notin openPorts

\* C14: once stopLiveSession has run, no frame timer is pending, no microphone
\* capture is active and the camera, screen and microphone streams are
\* released.
C14_StopReleasesAll ==
  ev.op = "StopLiveSession" =>
    /\ frameTimers = {}
    /\ openPorts = {}
    /\ audioWorkletNodeRef = 0
    /\ microphoneStreamRef = 0
    /\ ~cameraStreamRef
    /\ ~screenStreamRef

\* C15: right after onerror and right after onclose the audio is flushed, the
\* session state is not Ready, the microphone stream and the worklet are
\* released and the session reference is cleared.
C15_ErrorAndCloseCleanUp ==
  ev.op \in {"OnError", "OnClose"} =>
    /\ ev.flush # "none"
    /\ ev.post.active = {}
    /\ ~ev.post.playing
    /\ ~isSessionReady
    /\ commentaryStatus = (IF ev.op = "OnError" THEN "Error" ELSE "Idle")
    /\ microphoneStreamRef = 0
    /\ audioWorkletNodeRef = 0
    /\ openPorts = {}
    /\ liveSessionRef = 0

\* C16: right after stopScreenShare, stopCameraStream, stopLiveSession,
\* onclose and onerror no frame timer, periodic prompt timer, quiet-period
\* timeout or initial-prompt timeout is pending.
C16_TimersCancelledOnStop ==
  ev.op \in {"StopScreenShare", "StopCameraStream", "StopLiveSession",
             "OnClose", "OnError"} =>
    /\ frameTimers = {}
    /\ promptIntervals = {}
    /\ quietTimeouts = {}
    /\ initialPrompts = {}

\* C18: a failed microphone setup changes neither the session state, the
\* session reference, the status nor the queue; with the setup failed every
\* inbound message delivered is still processed and a frame read while the
\* session is Ready is still sent.
C18_MicFailed == \E t \in Sessions : transports[t].mic = "failed"

C18_MicFailStep ==
  /\ ev'.op = "MicSetupFail" =>
       /\ isSessionReady' = isSessionReady
       /\ liveSessionRef' = liveSessionRef
       /\ commentaryStatus' = commentaryStatus
       /\ messageQueueRef' = messageQueueRef
       /\ micVars' = micVars
  /\ (C18_MicFailed /\ ev'.op = "OnMessage") =>
       Len(processedLog') = Len(processedLog) + 1
  /\ (C18_MicFailed /\ ev'.op = "FrameRead" /\ isSessionReady /\ liveSessionRef # 0) =>
       ev'.sent = << Send("frame", TRUE) >>

C18_MicFailureNotFatal == [][C18_MicFailStep]_vars

\* with the microphone setup failed the session is Ready, a message has been
\* processed and a frame has just been sent
C18_Witness ==
  /\ C18_MicFailed
  /\ isSessionReady
  /\ liveSessionRef # 0
  /\ processedLog # <<>>
  /\ ev.op = "FrameRead"
  /\ Len(ev.sent) = 1

\* C19: a frame timer tick that was skipped sent nothing and left a next tick
\* set.
C19_SkippedTickReschedules ==
  (ev.op = "FrameTimerFires" /\ ev.skipped) =>
    /\ ev.sent = <<>>
    /\ \E f \in frameTimers : f.id = frameIntervalRef

\* C20: every frame timer was set with the interval of the table: 500, 1000,
\* 1500, 2000 ms for critical, high, medium, low in navigation mode, and one
\* constant interval for every urgency level otherwise.
C20_Urgencies == {"critical", "high", "medium", "low"}

C20_FrameIntervals ==
  /\ \A f \in frameTimers :
       /\ f.urgency \in C20_Urgencies
       /\ f.nav =>
            f.at - f.set = CASE f.urgency = "critical" -> 500
                             [] f.urgency = "high"     -> 1000
                             [] f.urgency = "medium"   -> 1500
                             [] f.urgency = "low"      -> 2000
       /\ ~f.nav => f.at - f.set = GetFrameInterval(FALSE, "low")
  /\ \A u \in C20_Urgencies : GetFrameInterval(FALSE, u) = GetFrameInterval(FALSE, "low")
  /\ GetFrameInterval(TRUE, urgencyLevel) =
       CASE urgencyLevel = "critical" -> 500
         [] urgencyLevel = "high"     -> 1000
         [] urgencyLevel = "medium"   -> 1500
         [] urgencyLevel = "low"      -> 2000

\* a frame timer set in navigation mode at critical urgency
C20_Witness ==
  \E f \in frameTimers : f.nav /\ f.urgency = "critical" /\ f.at - f.set = 500

\* C21: a frame timer just set by a capture of the running loop has the
\* interval of the navigation mode and the urgency level current at that
\* capture.
C21_IntervalFollowsCurrentMode ==
  (ev.op = "FrameTimerFires" /\ ~ev.skipped) =>
    \A f \in frameTimers :
      f.id = frameIntervalRef =>
        f.at - f.set = GetFrameInterval(isNavigationMode, urgencyLevel)

\* C22: an AI text without "stop" from which a distance was parsed sets the
\* urgency level to critical below 1 m, high from 1 m to below 2 m, medium
\* from 2 m to below 3 m and low from 3 m; an AI text without "stop" and
\* without a distance leaves the urgency level as it was.
ContainsStopAnyCase(text) ==
  \E i \in 1..Len(text) : text[i] \in {"stop", "Stop", "STOP", "stops", "nonstop"}

C22_ParseStep ==
  (ev'.op = "OnMessage" /\ ev'.heard # <<>> /\ ~ContainsStopAnyCase(ev'.heard)) =>
    IF detectedDistance' # -1
      THEN urgencyLevel' = CASE detectedDistance' < 1000000 -> "critical"
                             [] detectedDistance' \in 1000000..1999999 -> "high"
                             [] detectedDistance' \in 2000000..2999999 -> "medium"
                             [] OTHER -> "low"
      ELSE urgencyLevel' = urgencyLevel

C22_DistanceSetsUrgency == [][C22_ParseStep]_vars

\* "stairs 4 feet" heard while the urgency was low: 1.2192 m, high
C22_Witness ==
  /\ ev.heard = <<"stairs", "4", "feet">>
  /\ detectedDistance = 1219200
  /\ urgencyLevel = "high"
  /\ Len(processedLog) = 1

\* C23: after an AI text that contains "stop" in any letter case the urgency
\* level is critical, whatever distance was parsed from it.
C23_StopIsCritical ==
  (ev.op = "OnMessage" /\ ContainsStopAnyCase(ev.heard)) => urgencyLevel = "critical"

\* "Stop 5 meters" heard: the distance is 5 m, the urgency critical
C23_Witness ==
  /\ ev.heard = <<"Stop", "5", "meters">>
  /\ detectedDistance = 5000000
  /\ urgencyLevel = "critical"

\* C24: the three texts with number words give 0.5 m and critical, 5 m and
\* low, 1.2192 m and high.
C24_NumberWordsParsed ==
  /\ ev.heard = <<"STOP", "Wall", "half", "meter">> =>
       detectedDistance = 500000 /\ urgencyLevel = "critical"
  /\ ev.heard = <<"Clear", "path", "Five", "meters">> =>
       detectedDistance = 5000000 /\ urgencyLevel = "low"
  /\ ev.heard = <<"Obstacle", "right", "Four", "feet">> =>
       detectedDistance = 1219200 /\ urgencyLevel = "high"

\* C25: the transcript never holds more than 50 entries; a text message
\* appends its entry last, and when the transcript held 50 entries exactly
\* the oldest is removed; the entries before the new one keep their order.
C25_AppendStep ==
  ev'.op = "OnMessage" =>
    LET n == Len(chatMessages')
    IN  /\ n <= 50
        /\ n >= 1
        /\ chatMessages'[n].id = numMsgs'
        /\ SubSeq(chatMessages', 1, n - 1) =
             IF Len(chatMessages) = 50 THEN Tail(chatMessages) ELSE chatMessages
        /\ \A i \in 1..(n - 1) : chatMessages'[i].id < chatMessages'[i + 1].id

C25_TranscriptCapped == [][C25_AppendStep]_vars

\* a full transcript of user and AI entries whose two oldest entries were
\* removed
C25_Witness ==
  /\ ev.op = "OnMessage"
  /\ Len(chatMessages) = 50
  /\ chatMessages[1].id = 3
  /\ chatMessages[50].id = 52
  /\ \E i \in 1..50 : chatMessages[i].type = "user"

\* C26: whenever no message awaits its decode, the in-progress flag is
\* released and no message is left in the queue, also after a message whose
\* handling failed.
C26_FailureSkipsMessage ==
  decoding = {} => ~isProcessingQueueRef /\ messageQueueRef = <<>>

\* C27: a prompt text is sent only while no chunk of AI audio is playing and
\* after a frame of the current capture has been sent.
C27_PromptsOnlyInQuiet ==
  \A i \in 1..Len(ev.sent) :
    ev.sent[i].kind = "prompt" =>
      /\ ~ \E c \in activeSourcesRef : c.start <= clock
      /\ frameCountRef > 0

\* C28: the camera stream and the screen stream are never held together, and
\* no more than one frame loop has a timer pending.
C28_OneSourceAtATime ==
  /\ ~(screenStreamRef /\ cameraStreamRef)
  /\ Cardinality(frameTimers) <= 1

\* C29: a capture start that fails leaves isSessionReady and the session
\* reference as they were, leaves no stream of its kind held and sets no
\* frame timer.
C29_FailedOps == {"StartCaptureNotReady", "CaptureDeviceDenied", "CapturePlayFails"}

C29_FailStep ==
  ev'.op \in C29_FailedOps =>
    /\ isSessionReady' = isSessionReady
    /\ liveSessionRef' = liveSessionRef
    /\ frameTimers' \subseteq frameTimers
    /\ \A c \in captureCalls \ captureCalls' :
         (\A d \in captureCalls \ {c} : d.kind # c.kind) =>
           IF c.kind = "screen" THEN ~isSharingScreen => ~screenStreamRef'
                                ELSE ~isCameraActive => ~cameraStreamRef'

C29_FailedStartLeavesNothing == [][C29_FailStep]_vars

\* C30 (as stated): every encoded value lies in -32768..32767 and, divided by
\* 32768, is within one quantization step (1/32768) of the clamped sample.
\* In units of 2^-16 the decoded value is 2 * v and one step is 2.
C30_Error(k, v) ==
  LET d == ClampSample(k) - 2 * v IN IF d < 0 THEN -d ELSE d

C30_WithinOneStep ==
  \A j \in 1..Len(workletPosted) : \A i \in 1..Len(workletPosted[j]) :
    /\ workletPosted[j][i] \in -32768..32767
    /\ C30_Error(workletInput[j][i], workletPosted[j][i]) <= 2

\* C30 (amended): every encoded value lies in -32768..32767 and, divided by
\* 32768, is less than two quantization steps from the clamped sample; it is
\* within one step for a sample that is not positive.
C30_WithinTwoSteps ==
  \A j \in 1..Len(workletPosted) : \A i \in 1..Len(workletPosted[j]) :
    /\ workletPosted[j][i] \in -32768..32767
    /\ C30_Error(workletInput[j][i], workletPosted[j][i]) < 4
    /\ workletInput[j][i] <= 0 =>
         C30_Error(workletInput[j][i], workletPosted[j][i]) <= 2

C30_Witness ==
  /\ workletInput = << << 65535, -98304 >> >>
  /\ workletPosted = << << 32766, -32768 >> >>

\* C31: while the session is not ready the status is none of the values of
\* a live session (Ready, Speaking, Listening).
C31_StatusAgreesWithLifecycle ==
  ~isSessionReady => commentaryStatus \notin {"Ready", "Speaking", "Listening"}

\* C32: nextStartTime decreases only in a step that flushes on the server's
\* interruption or on barge-in, or that starts a session; a step that
\* schedules without such a flush never moves it back.
C32_ClockStep ==
  nextStartTimeRef' < nextStartTimeRef =>
    \/ ev'.flush \in {"interrupt", "bargein"}
    \/ ev'.op \in {"InitLiveSession", "InitLiveSessionResume"}

C32_NextStartMonotone == [][C32_ClockStep]_vars

\* a barge-in stopped a chunk that was to end later and reset nextStartTime
\* to the current time
C32_Witness ==
  /\ ev.flush = "bargein"
  /\ nextStartTimeRef = clock
  /\ \E c \in stoppedSources : c.start + c.dur > clock

\* C33: every timer was set with the delay delays[min(retryCount, length - 1)]
\* of the retryCount it was set at; with the default schedule the attempts
\* after 0, 1, ..., 6 failures wait 250, 500, 1000, 2000, 4000, 8000 and
\* 10000 ms; the delay does not decrease when retryCount grows and never
\* exceeds the last entry.
C33_BackoffSchedule ==
  /\ \A x \in reconnectionManager.timers \cup reconnectionManager.connecting :
       /\ x.delay = RECONNECT_DELAYS[Min(x.retry, Len(RECONNECT_DELAYS) - 1) + 1]
       /\ x.delay <= RECONNECT_DELAYS[Len(RECONNECT_DELAYS)]
       /\ x.retry > 0 => x.delay >= GetCurrentDelay(x.retry - 1)
  /\ [n \in 1..7 |-> GetCurrentDelay(n - 1)] =
       << 250, 500, 1000, 2000, 4000, 8000, 10000 >>
  /\ GetCurrentDelay(reconnectionManager.retryCount) <=
       GetCurrentDelay(reconnectionManager.retryCount + 1)
  /\ GetCurrentDelay(reconnectionManager.retryCount) <=
       RECONNECT_DELAYS[Len(RECONNECT_DELAYS)]

\* the seventh attempt in a row, made after a wait of 10000 ms
C33_Witness ==
  \E x \in reconnectionManager.connecting :
    /\ x.retry = 6 /\ x.delay = 10000
    /\ reconnectionManager.attempts = 7

\* C34: retryCount never exceeds maxRetries, no more than maxRetries connect
\* attempts are started between two resets, and once retryCount has reached
\* maxRetries by a failed attempt no timer is pending, the step that failed
\* last having called onReconnectFail.
C34_RetriesBounded ==
  /\ reconnectionManager.retryCount <= MAX_RETRIES
  /\ reconnectionManager.attempts <= MAX_RETRIES
  /\ reconnectionManager.retryCount >= MAX_RETRIES =>
       /\ reconnectionManager.timers = {}
       /\ ev.op = "ConnectRejected" => reconnectionManager.failNotified

\* C39: at most one reconnection attempt is outstanding, a pending timer or
\* a connect call awaiting its result.
C39_OneAttemptOutstanding ==
  Cardinality(reconnectionManager.timers) +
    Cardinality(reconnectionManager.connecting) <= 1

\* C40: from cancelReconnect until the next scheduleReconnect or
\* manualReconnect, isReconnecting is false and no timer is pending.
C40_CancelledStaysCancelled ==
  reconnectionManager.cancelled =>
    /\ ~reconnectionManager.isReconnecting
    /\ reconnectionManager.timers = {}

\* C35: while no message awaits its decode, isPlaying is true exactly when
\* the in-flight set is not empty.
C35_PlayingIffInFlight ==
  decoding = {} => (isAudioPlayingRef <=> activeSourcesRef # {})


\* C36: a close callback of a session older than the newest one, and an error
\* callback that only such a session can deliver, leaves the session
\* reference, the readiness, the status, the microphone input and the
\* in-flight set as they were.
C36_StaleCallback ==
  \/ /\ ev'.op = "OnClose"
     /\ \E t \in Sessions :
          /\ t < numSessions
          /\ transports[t].state # "closed"
          /\ transports'[t].state = "closed"
  \/ /\ ev'.op = "OnError"
     /\ transports[numSessions].state \in {"none", "closed"}

C36_StaleStep ==
  C36_StaleCallback =>
    /\ liveSessionRef' = liveSessionRef
    /\ isSessionReady' = isSessionReady
    /\ commentaryStatus' = commentaryStatus
    /\ micVars' = micVars
    /\ activeSourcesRef' = activeSourcesRef

C36_StaleCallbacksIgnored == [][C36_StaleStep]_vars


\* C37: when the session reference is cleared and no connection is open or
\* being opened, no microphone stream and no worklet node is held.
C37_NoSession ==
  /\ liveSessionRef = 0
  /\ numSessions > 0
  /\ \A t \in Sessions : transports[t].state \in {"none", "closing", "closed"}

C37_NoSessionNoMicrophone ==
  C37_NoSession => microphoneStreamRef = 0 /\ audioWorkletNodeRef = 0


\* C38: at most one periodic prompt timer is running, and a running one is
\* the one whose id is in promptIntervalRef.
C38_OnePromptInterval ==
  /\ Cardinality(promptIntervals) <= 1
  /\ \A i \in promptIntervals : i.id = promptIntervalRef

====
